---------------------------- MODULE Spec2Model ----------------------------
(***************************************************************************)
(* A model of utilium's binary struct engine (src/src/struct.ts, the       *)
(* revision with staticOffset / isDynamic / dynamicOffsets, lines 319-691) *)
(* as a state machine: class declarations run the @member and @struct      *)
(* decorators, which build the per-class metadata; instances are then      *)
(* created, mutated, measured (sizeof, offsetof), serialized and           *)
(* deserialized.                                                           *)
(***************************************************************************)
EXTENDS Integers, Sequences, FiniteSets, TLC

VARIABLES
    classes,    \* the JavaScript classes defined so far: name -> [base, fields]
    metadata,   \* class -> the `struct` object of its Symbol.metadata object
    decl,       \* the class definition being evaluated (decorators running)
    err,        \* the error thrown by the last class definition ("" if none)
    inst,       \* the instance under test (a value tree), or Undefined
    buf,        \* the bytes returned by the last serialize(inst)
    out,        \* the instance deserialize() was last applied to
    ret         \* the outcome of the last call: [op, arg, val, error]

vars == <<classes, metadata, decl, err, inst, buf, out, ret>>

-----------------------------------------------------------------------------
(* Bounds of the model.                                                    *)

\* how many classes a program declares
MaxClasses == 3
\* how many @member decorators a program applies, over all its classes
MaxInits == 3
\* the largest value a counter field is given
MaxCount == 2
\* the largest offset a 128-bit value is written at
MaxOffset == 2
\* the largest value and the largest alignment align is called on
MaxValue == 20
MaxAlignment == 8
\* the resource has offsets 0..MaxEnd - 1
MaxEnd == 4

\* the most bytes one add() brings
MaxData == 2
\* how many times a resource is given data, by add() or by get()

MaxAdds == 3
\* the largest regionGapThreshold
MaxThreshold == 1
\* the longest line typed and the longest history of a shell
MaxLine == 2
MaxHistory == 2
\* how many handlers of the shell wait for onLine at once
MaxPending == 1




\* class names, in the order the program declares them
ClassPool == <<"A", "B", "C", "D", "E">>

NoBase == "Object"

-----------------------------------------------------------------------------
(* Primitive types: src/src/internal/primitives.ts and internal/struct.ts  *)

typeNames == {"uint8", "uint16", "uint32"}

validNames == typeNames \cup {"Uint8", "Uint16", "Uint32", "char"}

isValid(type) == type \in validNames

normalize(type) ==
    CASE type = "char" -> "uint8"
      [] type = "Uint8" -> "uint8"
      [] type = "Uint16" -> "uint16"
      [] type = "Uint32" -> "uint32"
      [] OTHER -> type

\* primitive.isType: the name matches the regex, whatever its case
isType(type) == type \in validNames /\ type # "char"

\* the digits the regex captures from a normalized name
Bits(type) ==
    CASE type = "uint8" -> 8
      [] type = "uint16" -> 16
      [] type = "uint32" -> 32

\* isStatic(type): a class that carries struct metadata
isStatic(md, type) == type \in DOMAIN md

\* sizeof(type) for a primitive name or a struct class
sizeof(md, type) ==
    IF isValid(type) THEN Bits(normalize(type)) \div 8
    ELSE md[type].staticSize

\* Math.floor(value / alignment) * alignment
alignFloor(value, alignment) == (value \div alignment) * alignment

\* Math.ceil(value / alignment) * alignment
align(value, alignment) ==
    ((value + alignment - 1) \div alignment) * alignment

-----------------------------------------------------------------------------
(* Member lengths: undefined, a number, or the name of a counter field.    *)

NoLength == [kind |-> "undefined", n |-> 0, key |-> ""]
NumLength(n) == [kind |-> "number", n |-> n, key |-> ""]
KeyLength(k) == [kind |-> "string", n |-> 0, key |-> k]

MemberInit(name, type, length) == [name |-> name, type |-> type, length |-> length]

Max(a, b) == IF a >= b THEN a ELSE b

\* length || 1, for a length that is not a string
LengthOr1(length) ==
    IF length.kind = "number" /\ length.n # 0 THEN length.n ELSE 1

\* the size a member adds to staticSize (struct.ts line 482)
memberSize(md, m) ==
    IF m.length.kind = "string" THEN 0
    ELSE sizeof(md, m.type) * LengthOr1(m.length)

\* Map.prototype.set on an insertion-ordered map kept as a sequence
MapSet(members, entry) ==
    IF \E i \in 1..Len(members) : members[i].name = entry.name
    THEN [i \in 1..Len(members) |->
            IF members[i].name = entry.name THEN entry ELSE members[i]]
    ELSE Append(members, entry)

MapHas(members, name) == \E i \in 1..Len(members) : members[i].name = name

MapGet(members, name) ==
    members[CHOOSE i \in 1..Len(members) : members[i].name = name]

\* the loop of _decorateStruct over context.metadata.struct.init
RECURSIVE decorateLoop(_, _, _, _, _)
decorateLoop(md, options, init, i, acc) ==
    IF i > Len(init) THEN acc
    ELSE
        LET m == init[i]
            entry == [name |-> m.name,
                      staticOffset |-> IF options.isUnion THEN 0 ELSE acc.staticSize,
                      type |-> IF isValid(m.type) THEN normalize(m.type) ELSE m.type,
                      length |-> m.length]
            size == IF options.isUnion
                    THEN Max(acc.staticSize, memberSize(md, m))
                    ELSE acc.staticSize + memberSize(md, m)
        IN decorateLoop(md, options, init, i + 1,
              [members |-> MapSet(acc.members, entry),
               staticSize |-> align(size, IF options.align = 0 THEN 1 ELSE options.align),
               isDynamic |-> acc.isDynamic \/ m.length.kind = "string"])

\* the metadata _decorateStruct stores for a class
_decorateStruct(md, options, init) ==
    LET r == decorateLoop(md, options, init, 1,
                 [members |-> <<>>, staticSize |-> 0, isDynamic |-> FALSE])
    IN [options |-> options, members |-> r.members, staticSize |-> r.staticSize,
        isDynamic |-> r.isDynamic, hasInit |-> FALSE, init |-> <<>>]

\* the type check of _decorateStruct: a member type is a primitive or a struct class
badType(md, init) ==
    \E i \in 1..Len(init) : ~isValid(init[i].type) /\ ~isStatic(md, init[i].type)

-----------------------------------------------------------------------------
(* Evaluating a class definition: the member decorators run first, in      *)
(* source order, then the class decorator.  context.metadata of a class is *)
(* an object whose prototype is the metadata object of the base class, so  *)
(* context.metadata.struct of a derived class reads the struct object of   *)
(* its base until the class decorator assigns an own one.                  *)

NoDecl == [active |-> FALSE, name |-> "", base |-> NoBase,
           hasStruct |-> FALSE, init |-> <<>>, fields |-> <<>>]

Declared == DOMAIN classes

\* the struct object context.metadata.struct resolves to while decl is evaluated
Inherits == decl.base # NoBase

\* context.metadata.struct.init of the class being evaluated
ContextInit == IF Inherits THEN metadata[decl.base].init ELSE decl.init

RECURSIVE SumLen(_, _)
SumLen(f, S) ==
    IF S = {} THEN 0
    ELSE LET c == CHOOSE x \in S : TRUE
         IN Len(f[c].fields) + SumLen(f, S \ {c})

\* the @member decorators applied so far
InitCount == SumLen(classes, Declared) + Len(decl.fields)

\* `class X extends base {`: the definition starts being evaluated
ClassBegin(maxClasses) ==
    /\ ~decl.active
    /\ inst.k = "undefined"
    /\ Cardinality(Declared) < maxClasses
    /\ \E base \in {NoBase} \cup Declared :
          decl' = [NoDecl EXCEPT !.active = TRUE,
                                 !.name = ClassPool[Cardinality(Declared) + 1],
                                 !.base = base]
    /\ err' = ""
    /\ UNCHANGED <<classes, metadata, inst, buf, out, ret>>

\* @member(type, length) on a field: pushes {name, type, length} on
\* context.metadata.struct.init, creating struct and init when they are nullish
member(Inits) ==
    /\ decl.active
    /\ InitCount < MaxInits
    /\ Len(ContextInit) < MaxInits
    /\ \E m \in Inits :
          IF Inherits
          THEN /\ metadata' = [metadata EXCEPT ![decl.base].hasInit = TRUE,
                                               ![decl.base].init = Append(@, m)]
               /\ decl' = [decl EXCEPT !.fields = Append(@, m)]
          ELSE /\ decl' = [decl EXCEPT !.hasStruct = TRUE,
                                       !.init = Append(@, m),
                                       !.fields = Append(@, m)]
               /\ UNCHANGED metadata
    /\ UNCHANGED <<classes, err, inst, buf, out, ret>>

\* @struct(options) on the class: computes the layout from init and stores
\* it as the own struct object of the class, or throws on an invalid type
struct(Options) ==
    /\ decl.active
    /\ \E options \in Options :
          LET seeded == IF Inherits
                        THEN [metadata EXCEPT ![decl.base].hasInit = TRUE]
                        ELSE metadata
              init == ContextInit
          IN IF badType(metadata, init)
             THEN /\ err' = "TypeError"
                  /\ metadata' = seeded
                  /\ UNCHANGED classes
             ELSE /\ err' = ""
                  /\ metadata' = (decl.name :> _decorateStruct(metadata, options, init))
                                    @@ seeded
                  /\ classes' = (decl.name :> [base |-> decl.base, fields |-> decl.fields])
                                    @@ classes
    /\ decl' = NoDecl
    /\ UNCHANGED <<inst, buf, out, ret>>

-----------------------------------------------------------------------------
(* Values held by instance fields.  A value is tagged by its typeof / kind;*)
(* an object is an instance of a declared class with its own fields.       *)

Undefined == [k |-> "undefined"]
Num(n) == [k |-> "number", n |-> n]
Str(s) == [k |-> "string", s |-> s]
Arr(a) == [k |-> "array", a |-> a]
Obj(cls, f) == [k |-> "object", cls |-> cls, f |-> f]

\* the outcome of the last call made on the instance under test
Ret(op, arg, val, error) == [op |-> op, arg |-> arg, val |-> val, error |-> error]
NoRet == Ret("", "", 0, "")

\* the field definitions an instance of cls gets: those of the base class
\* first (its constructor runs first), then its own
RECURSIVE FieldsOf(_, _)
FieldsOf(cl, cls) ==
    IF cls = NoBase THEN <<>>
    ELSE FieldsOf(cl, cl[cls].base) \o cl[cls].fields

FieldNames(cl, cls) == { FieldsOf(cl, cls)[i].name : i \in 1..Len(FieldsOf(cl, cls)) }

\* the definition of field `name` that is in force: the last one in the chain
FieldDecl(cl, cls, name) ==
    LET fs == FieldsOf(cl, cls)
        last == CHOOSE i \in 1..Len(fs) :
                    /\ fs[i].name = name
                    /\ \A j \in (i + 1)..Len(fs) : fs[j].name # name
    IN fs[last]

\* sample values of a primitive type: k = 0 is the zero value
Sample(type, k) ==
    IF k = 0 THEN 0
    ELSE IF normalize(type) = "uint8" THEN k ELSE 256 + k

Code(k) == 97 + k

\* a well-typed instance of cls, every scalar, element and counter marked by k;
\* k = 0 is the instance `new cls()` builds from zero-valued initializers
RECURSIVE Filled(_, _, _)
FilledOne(cl, d, j) ==
    IF isValid(d.type) THEN Num(Sample(d.type, j)) ELSE Filled(cl, d.type, j)

FilledField(cl, d, k) ==
    CASE d.length.kind = "undefined" -> FilledOne(cl, d, k)
      [] d.length.kind = "number" ->
            IF d.type = "char"
            THEN Str([i \in 1..d.length.n |-> Code(k)])
            ELSE Arr([i \in 1..d.length.n |-> FilledOne(cl, d, k)])
      [] d.length.kind = "string" -> Arr([i \in 1..k |-> FilledOne(cl, d, i)])

Filled(cl, cls, k) ==
    Obj(cls, [n \in FieldNames(cl, cls) |-> FilledField(cl, FieldDecl(cl, cls, n), k)])

\* the values a test assigns to field `name` of an instance of cls
Variants(cl, cls, name) ==
    { Filled(cl, cls, k).f[name] : k \in 0..MaxCount }

-----------------------------------------------------------------------------
(* The layout calculator on instances: _memberLength, sizeof, offsetof.    *)
(* A call that can throw yields [error, v]: error is the name of the       *)
(* thrown error, or "" when the call returns v.                            *)

Return(v) == [error |-> "", v |-> v]
Throw(e) == [error |-> e, v |-> 0]

Abs(n) == IF n < 0 THEN -n ELSE n

\* instance[name]
Get(instance, name) ==
    IF name \in DOMAIN instance.f THEN instance.f[name] ELSE Undefined

\* the error _memberLength(instance, name, length) throws, "" if none
lengthError(instance, length) ==
    CASE length.kind = "undefined" -> ""
      [] length.kind = "number" -> IF length.n >= 0 THEN "" ELSE "Error"
      [] length.kind = "string" ->
            IF length.key \notin DOMAIN instance.f THEN "Error"
            ELSE IF instance.f[length.key].k # "number" THEN "Error"
            ELSE ""

\* the array length of a member: -1 for a scalar, the declared number, or the
\* value the counter field holds now; read from the instance at every call
_memberLength(instance, name, length) ==
    CASE length.kind = "undefined" -> -1
      [] length.kind = "number" -> length.n
      [] length.kind = "string" -> instance.f[length.key].n

\* some member's length cannot be computed on this instance
anyLengthError(members, instance) ==
    \E i \in 1..Len(members) : lengthError(instance, members[i].length) # ""

\* the call sizeof(instance) makes for a counted member `name` counted by
\* `key`: _memberLength(type, key, name), so the third parameter, the length,
\* receives the member's own name
countedLength(name, key) == KeyLength(name)

\* the loop of sizeof(instance): the counted members add to staticSize
RECURSIVE sizeofLoop(_, _, _, _)
sizeofLoop(md, instance, members, i) ==
    IF i > Len(members) THEN 0
    ELSE (IF members[i].length.kind # "string" THEN 0
          ELSE sizeof(md, members[i].type)
                 * _memberLength(instance, members[i].length.key,
                                 countedLength(members[i].name, members[i].length.key)))
         + sizeofLoop(md, instance, members, i + 1)

\* a size one byte short of the declared one
sizeofShort(md, instance) == Return(md[instance.cls].staticSize - 1)

\* sizeof(instance)
sizeofInstance(md, instance) ==
    LET s == md[instance.cls]
    IN IF \E i \in 1..Len(s.members) :
              /\ s.members[i].length.kind = "string"
              /\ lengthError(instance,
                     countedLength(s.members[i].name, s.members[i].length.key)) # ""
       THEN Throw("Error")
       ELSE Return(s.staticSize + sizeofLoop(md, instance, s.members, 1))

\* the running offset of the loops of dynamicOffsets and offsetof: the sizes
\* of the members before the j-th
RECURSIVE offsetBefore(_, _, _, _)
offsetBefore(md, instance, members, j) ==
    IF j <= 1 THEN 0
    ELSE offsetBefore(md, instance, members, j - 1)
         + sizeof(md, members[j - 1].type)
             * Abs(_memberLength(instance, members[j - 1].name, members[j - 1].length))

MemberIndex(members, name) ==
    CHOOSE i \in 1..Len(members) : members[i].name = name

\* dynamicOffsets(instance): member name -> offset
dynamicOffsets(md, instance) ==
    LET members == md[instance.cls].members
    IN [n \in { members[i].name : i \in 1..Len(members) } |->
           offsetBefore(md, instance, members, MemberIndex(members, n))]

\* a struct class used as an argument (isStatic(type) holds)
Class(cls) == [k |-> "class", cls |-> cls]

\* offsetof that answers every call from the declaration-time layout
offsetofStatic(md, type, memberName) ==
    IF MapHas(md[type.cls].members, memberName)
    THEN Return(MapGet(md[type.cls].members, memberName).staticOffset)
    ELSE Throw("Error")

\* offsetof(type, memberName), type a struct class or an instance
offsetof(md, type, memberName) ==
    LET s == md[type.cls]
    IN IF type.k = "class" \/ ~s.isDynamic
       THEN IF MapHas(s.members, memberName)
            THEN Return(MapGet(s.members, memberName).staticOffset)
            ELSE Throw("Error")
       ELSE LET j == IF MapHas(s.members, memberName)
                     THEN MemberIndex(s.members, memberName)
                     ELSE Len(s.members) + 1
            IN IF \E i \in 1..(j - 1) : lengthError(type, s.members[i].length) # ""
               THEN Throw("Error")
               ELSE IF MapHas(s.members, memberName)
                    THEN Return(offsetBefore(md, type, s.members, j))
                    ELSE Throw("Error")

-----------------------------------------------------------------------------
(* Buffers are sequences of bytes; DataView accessors write and read       *)
(* unsigned integers of 1, 2 or 4 bytes in either byte order.              *)

Zeros(n) == [p \in 1..n |-> 0]

RECURSIVE Pow256(_)
Pow256(e) == IF e = 0 THEN 1 ELSE 256 * Pow256(e - 1)

\* the bytes of n with the least significant byte first, whatever the order asked
EncodeLowFirst(n, size, littleEndian) ==
    [p \in 1..size |-> (n \div Pow256(p - 1)) % 256]

\* the bytes of n as an unsigned integer of `size` bytes (wraps modulo 2^bits)
Encode(n, size, littleEndian) ==
    [p \in 1..size |->
        (n \div Pow256(IF littleEndian THEN p - 1 ELSE size - p)) % 256]

\* the unsigned integer that `bytes` hold in the given byte order
RECURSIVE Decode(_, _)
Decode(bytes, littleEndian) ==
    IF bytes = <<>> THEN 0
    ELSE IF littleEndian
         THEN bytes[1] + 256 * Decode(Tail(bytes), littleEndian)
         ELSE bytes[Len(bytes)]
              + 256 * Decode(SubSeq(bytes, 1, Len(bytes) - 1), littleEndian)

\* buffer.set(bytes, off) / view.setUintN(off, ...): RangeError out of bounds
InBounds(buffer, off, size) == off >= 0 /\ off + size <= Len(buffer)

SetBytes(buffer, off, bytes) ==
    [p \in 1..Len(buffer) |->
        IF p > off /\ p <= off + Len(bytes) THEN bytes[p - off] ELSE buffer[p]]

GetBytes(buffer, off, size) == SubSeq(buffer, off + 1, off + size)

\* buffer.subarray(begin, end): clamped to the buffer
Subarray(buffer, begin, end) ==
    LET b == IF begin > Len(buffer) THEN Len(buffer) ELSE begin
        e == IF end > Len(buffer) THEN Len(buffer) ELSE end
    IN IF e <= b THEN <<>> ELSE SubSeq(buffer, b + 1, e)

\* value[i] for a value that is not undefined
Index(value, i) ==
    CASE value.k = "array" -> IF i < Len(value.a) THEN value.a[i + 1] ELSE Undefined
      [] value.k = "string" ->
            IF i < Len(value.s) THEN Str(<<value.s[i + 1]>>) ELSE Undefined
      [] OTHER -> Undefined

\* Number(value) as a DataView setter stores it: NaN is stored as 0
RECURSIVE ToNumber(_)
ToNumber(value) ==
    CASE value.k = "number" -> value.n
      [] value.k = "array" ->
            IF Len(value.a) = 1 /\ value.a[1].k \in {"number", "array"}
            THEN ToNumber(value.a[1]) ELSE 0
      [] OTHER -> 0

\* JavaScript truthiness of a value
Truthy(value) ==
    CASE value.k = "undefined" -> FALSE
      [] value.k = "number" -> value.n # 0
      [] value.k = "string" -> value.s # <<>>
      [] OTHER -> TRUE

Bytes(error, bytes) == [error |-> error, bytes |-> bytes]

-----------------------------------------------------------------------------
(* serialize(instance): [error, bytes]; bytes is the returned buffer, and  *)
(* <<>> when the call throws.                                              *)

RECURSIVE serialize(_, _)
RECURSIVE serializeMembers(_, _, _, _)
RECURSIVE serializeElements(_, _, _, _, _, _, _)

\* one turn of the inner loop: write element i of member m at base + size * i
serializeElement(md, instance, m, length, base, i, buffer) ==
    LET options == md[instance.cls].options
        iOff == base + sizeof(md, m.type) * i
        holder == Get(instance, m.name)
    IN IF length # -1 /\ holder.k = "undefined" THEN Bytes("TypeError", <<>>)
       ELSE LET raw == IF length # -1 THEN Index(holder, i) ELSE holder
                value == IF raw.k = "string"
                         THEN Num(IF raw.s = <<>> THEN 0 ELSE raw.s[1])
                         ELSE raw
            IN IF ~isType(m.type)
               THEN LET sub == IF ~Truthy(value)
                               THEN Bytes("", Zeros(sizeof(md, m.type)))
                               ELSE IF value.k = "object"
                                    THEN serialize(md, value)
                                    ELSE Bytes("TypeError", <<>>)
                    IN IF sub.error # "" THEN Bytes(sub.error, <<>>)
                       ELSE IF ~InBounds(buffer, iOff, Len(sub.bytes))
                            THEN Bytes("RangeError", <<>>)
                            ELSE Bytes("", SetBytes(buffer, iOff, sub.bytes))
               ELSE IF ~InBounds(buffer, iOff, sizeof(md, m.type))
                    THEN Bytes("RangeError", <<>>)
                    ELSE Bytes("", SetBytes(buffer, iOff,
                                     Encode(ToNumber(value), sizeof(md, m.type),
                                            ~options.bigEndian)))

\* for (let i = 0; i < Math.abs(length); i++)
serializeElements(md, instance, m, length, base, i, buffer) ==
    IF i >= Abs(length) THEN Bytes("", buffer)
    ELSE LET r == serializeElement(md, instance, m, length, base, i, buffer)
         IN IF r.error # "" THEN r
            ELSE serializeElements(md, instance, m, length, base, i + 1, r.bytes)

\* for (const [name, { type, length, staticOffset }] of members), from the j-th
serializeMembers(md, instance, j, buffer) ==
    LET s == md[instance.cls]
    IN IF j > Len(s.members) THEN Bytes("", buffer)
       ELSE LET m == s.members[j]
            IN IF lengthError(instance, m.length) # "" THEN Bytes("Error", <<>>)
               ELSE LET length == _memberLength(instance, m.name, m.length)
                        base == IF s.isDynamic
                                THEN dynamicOffsets(md, instance)[m.name]
                                ELSE m.staticOffset
                        r == serializeElements(md, instance, m, length, base, 0, buffer)
                    IN IF r.error # "" THEN r
                       ELSE serializeMembers(md, instance, j + 1, r.bytes)

serialize(md, instance) ==
    LET s == md[instance.cls]
        size == sizeofInstance(md, instance)
    IN IF size.error # "" THEN Bytes(size.error, <<>>)
       ELSE IF size.v < 0 THEN Bytes("RangeError", <<>>)
       ELSE IF s.isDynamic /\ anyLengthError(s.members, instance)
            THEN Bytes("Error", <<>>)
            ELSE serializeMembers(md, instance, 1, Zeros(size.v))

-----------------------------------------------------------------------------
(* deserialize(instance, buffer) mutates the instance: [error, inst] is    *)
(* the error it throws ("" if none) and the instance as the call leaves it.*)

Outcome(error, instance) == [error |-> error, inst |-> instance]

\* instance[name] = value
SetMember(instance, name, value) ==
    Obj(instance.cls,
        [n \in DOMAIN instance.f \cup {name} |->
            IF n = name THEN value ELSE instance.f[n]])

\* array[i] = value, for i <= array.length
SetIndex(array, i, value) ==
    Arr([p \in 1..Max(Len(array.a), i + 1) |->
            IF p = i + 1 THEN value ELSE array.a[p]])

\* object[key] = value, where object is the instance for a scalar member and
\* instance[name] for an array member
SetElement(instance, name, length, i, value) ==
    IF length = -1 THEN SetMember(instance, name, value)
    ELSE IF Get(instance, name).k = "array"
         THEN SetMember(instance, name, SetIndex(Get(instance, name), i, value))
         ELSE instance

\* s.slice(0, i) + String.fromCharCode(code) + s.slice(i + 1)
SetChar(s, i, code) ==
    SubSeq(s, 1, IF i < Len(s) THEN i ELSE Len(s)) \o <<code>> \o SubSeq(s, i + 2, Len(s))

RECURSIVE deserialize(_, _, _)
RECURSIVE deserializeMembers(_, _, _, _)
RECURSIVE deserializeElements(_, _, _, _, _, _)

\* one turn of the inner loop: read element i of member m
deserializeElement(md, instance, m, length, i, buffer) ==
    LET options == md[instance.cls].options
        holder == Get(instance, m.name)
        off == offsetof(md, instance, m.name)
        iOff == off.v + sizeof(md, m.type) * i
        element == IF length # -1 THEN Index(holder, i) ELSE holder
    IN IF off.error # "" THEN Outcome(off.error, instance)
       ELSE IF holder.k = "string"
       THEN IF ~InBounds(buffer, iOff, 1) THEN Outcome("RangeError", instance)
            ELSE Outcome("", SetMember(instance, m.name,
                                 Str(SetChar(holder.s, i, buffer[iOff + 1]))))
       ELSE IF ~isType(m.type)
       THEN IF length # -1 /\ holder.k = "undefined"
            THEN Outcome("TypeError", instance)
            ELSE IF element.k = "undefined" THEN Outcome("", instance)
            ELSE IF element.k # "object" THEN Outcome("TypeError", instance)
            ELSE LET r == deserialize(md, element,
                              Subarray(buffer, iOff, iOff + sizeof(md, m.type)))
                 IN Outcome(r.error, SetElement(instance, m.name, length, i, r.inst))
       ELSE IF ~InBounds(buffer, iOff, sizeof(md, m.type))
            THEN Outcome("RangeError", instance)
            ELSE IF length # -1 /\ holder.k = "number"
            THEN Outcome("TypeError", instance)
            ELSE Outcome("", SetElement(instance, m.name, length, i,
                        Num(Decode(GetBytes(buffer, iOff, sizeof(md, m.type)),
                                   ~options.bigEndian))))

\* for (let i = 0; i < Math.abs(length); i++)
deserializeElements(md, instance, m, length, i, buffer) ==
    IF i >= Abs(length) THEN Outcome("", instance)
    ELSE LET r == deserializeElement(md, instance, m, length, i, buffer)
         IN IF r.error # "" THEN r
            ELSE deserializeElements(md, r.inst, m, length, i + 1, buffer)

\* for (const [name, { type, length, staticOffset }] of members), from the j-th
deserializeMembers(md, instance, j, buffer) ==
    LET s == md[instance.cls]
    IN IF j > Len(s.members) THEN Outcome("", instance)
       ELSE LET m == s.members[j]
            IN IF lengthError(instance, m.length) # ""
               THEN Outcome("Error", instance)
               ELSE IF s.isDynamic /\ anyLengthError(s.members, instance)
               THEN Outcome("Error", instance)
               ELSE LET length == _memberLength(instance, m.name, m.length)
                        r == deserializeElements(md, instance, m, length, 0, buffer)
                    IN IF r.error # "" THEN r
                       ELSE deserializeMembers(md, r.inst, j + 1, buffer)

deserialize(md, instance, buffer) == deserializeMembers(md, instance, 1, buffer)

-----------------------------------------------------------------------------
(* Operations on one instance under test.                                  *)

MemberNames(md, cls) == { md[cls].members[i].name : i \in 1..Len(md[cls].members) }

Serialized == ret.op \in {"serialize", "deserialize"}

\* r = new cls(), its fields then assigned the k-th sample values
New ==
    /\ ~decl.active
    /\ inst.k = "undefined"
    /\ \E cls \in Declared, k \in 0..MaxCount :
           inst' = Filled(classes, cls, k)
    /\ UNCHANGED <<classes, metadata, decl, err, buf, out, ret>>

\* r[name] = value, for a field that holds a number
SetField ==
    /\ inst.k = "object"
    /\ \E name \in FieldNames(classes, inst.cls) :
       \E value \in Variants(classes, inst.cls, name) :
           /\ inst.f[name].k = "number"
           /\ value # inst.f[name]
           /\ inst' = SetMember(inst, name, value)
    /\ buf' = <<>>
    /\ out' = Undefined
    /\ ret' = NoRet
    /\ UNCHANGED <<classes, metadata, decl, err>>

\* _memberLength(r, name, length) for a member of r's struct
Length ==
    /\ inst.k = "object"
    /\ ~Serialized
    /\ \E name \in MemberNames(metadata, inst.cls) :
           LET m == MapGet(metadata[inst.cls].members, name)
               e == lengthError(inst, m.length)
           IN ret' = Ret("length", name,
                         IF e = "" THEN _memberLength(inst, name, m.length) ELSE 0, e)
    /\ UNCHANGED <<classes, metadata, decl, err, inst, buf, out>>

\* sizeof(r)
Sizeof ==
    /\ inst.k = "object"
    /\ ~Serialized
    /\ LET r == sizeofInstance(metadata, inst)
       IN ret' = Ret("sizeof", "", r.v, r.error)
    /\ UNCHANGED <<classes, metadata, decl, err, inst, buf, out>>

\* offsetof(r, name) and offsetof(R, name)
Offsetof ==
    /\ inst.k = "object"
    /\ ~Serialized
    /\ \E name \in MemberNames(metadata, inst.cls) \cup FieldNames(classes, inst.cls) :
       \E onType \in BOOLEAN :
           LET r == offsetof(metadata, IF onType THEN Class(inst.cls) ELSE inst, name)
           IN ret' = Ret(IF onType THEN "offsetofType" ELSE "offsetof", name, r.v, r.error)
    /\ UNCHANGED <<classes, metadata, decl, err, inst, buf, out>>

\* buf = serialize(r)
Serialize ==
    /\ inst.k = "object"
    /\ ~Serialized
    /\ LET r == serialize(metadata, inst)
       IN /\ buf' = r.bytes
          /\ ret' = Ret("serialize", "", Len(r.bytes), r.error)
    /\ UNCHANGED <<classes, metadata, decl, err, inst, out>>

\* out = new R(); deserialize(out, buf)
Deserialize ==
    /\ ret.op = "serialize"
    /\ ret.error = ""
    /\ LET r == deserialize(metadata, Filled(classes, inst.cls, 0), buf)
       IN /\ out' = r.inst
          /\ ret' = Ret("deserialize", "", 0, r.error)
    /\ UNCHANGED <<classes, metadata, decl, err, inst, buf>>

\* the fields of an instance of cls that hold a record
RecordFields(cl, cls) ==
    { n \in FieldNames(cl, cls) : ~isValid(FieldDecl(cl, cls, n).type) }

\* the instance with the fields in `empty` left undefined
Cleared(instance, empty) ==
    Obj(instance.cls,
        [n \in DOMAIN instance.f |-> IF n \in empty THEN Undefined ELSE instance.f[n]])

\* out = new R(), some record fields of it left empty;
\* deserialize(out, buf.subarray(0, len))
DeserializeFrom ==
    /\ ret.op = "serialize"
    /\ ret.error = ""
    /\ \E len \in 0..Len(buf) :
       \E empty \in SUBSET RecordFields(classes, inst.cls) :
           LET r == deserialize(metadata,
                                Cleared(Filled(classes, inst.cls, 0), empty),
                                Subarray(buf, 0, len))
           IN /\ out' = r.inst
              /\ ret' = Ret("deserializeFrom", [len |-> len, empty |-> empty], 0, r.error)
    /\ UNCHANGED <<classes, metadata, decl, err, inst, buf>>

Init ==
    /\ classes = <<>>
    /\ metadata = <<>>
    /\ decl = NoDecl
    /\ err = ""
    /\ inst = Undefined
    /\ buf = <<>>
    /\ out = Undefined
    /\ ret = NoRet

-----------------------------------------------------------------------------
(* The layout specification: programs of up to MaxClasses - 1 classes      *)
(* whose members are scalars, fixed arrays, counted arrays and embedded    *)
(* records, declared with and without alignment and the union option.      *)

LayoutLengths == {NoLength, NumLength(0), NumLength(2), KeyLength("a")}

LayoutInits ==
    { MemberInit(n, t, l) : n \in {"a", "b"},
                            t \in {"uint8", "uint16"} \cup Declared,
                            l \in LayoutLengths }

LayoutOptions ==
    { [align |-> a, isUnion |-> u, bigEndian |-> FALSE] : a \in {0, 2}, u \in BOOLEAN }

NextLayout ==
    \/ ClassBegin(MaxClasses - 1)
    \/ member(LayoutInits)
    \/ struct(LayoutOptions)

SpecLayout == Init /\ [][NextLayout]_vars

\* declarations whose instances are serialized: each name has one shape
InstInits ==
    {MemberInit("a", "uint8", NoLength), MemberInit("b", "uint16", NumLength(2)),
     MemberInit("c", "uint8", KeyLength("a")), MemberInit("c", "char", NumLength(2))}
    \cup { MemberInit("d", t, NoLength) : t \in Declared }

\* the default options, and big-endian records aligned on 2 bytes
InstOptions ==
    {[align |-> 0, isUnion |-> FALSE, bigEndian |-> FALSE],
     [align |-> 2, isUnion |-> FALSE, bigEndian |-> TRUE]}

NextInst ==
    \/ ClassBegin(MaxClasses - 1)
    \/ member(InstInits)
    \/ struct(InstOptions)
    \/ New
    \/ SetField
    \/ Length
    \/ Sizeof
    \/ Offsetof
    \/ Serialize
    \/ Deserialize

SpecInst == Init /\ [][NextInst]_vars

\* declarations of classes that extend one another: scalar members only
InheritInits ==
    { MemberInit(n, t, NoLength) : n \in {"a", "b", "c"}, t \in {"uint8", "uint16"} }

InheritOptions == { [align |-> a, isUnion |-> FALSE, bigEndian |-> FALSE] : a \in {0, 2} }

NextInherit ==
    \/ ClassBegin(MaxClasses)
    \/ member(InheritInits)
    \/ struct(InheritOptions)

SpecInherit == Init /\ [][NextInherit]_vars

\* records of multi-byte scalars and embedded records, each record with its
\* own byte order
EndianInits ==
    {MemberInit("a", "uint16", NoLength), MemberInit("b", "uint32", NoLength)}
    \cup { MemberInit("d", t, NoLength) : t \in Declared }

EndianOptions ==
    { [align |-> 0, isUnion |-> FALSE, bigEndian |-> e] : e \in BOOLEAN }

NextEndian ==
    \/ ClassBegin(MaxClasses - 1)
    \/ member(EndianInits)
    \/ struct(EndianOptions)
    \/ New
    \/ SetField
    \/ Serialize
    \/ Deserialize

SpecEndian == Init /\ [][NextEndian]_vars

-----------------------------------------------------------------------------
(* 128-bit integers.  A BigInt is its two's complement digits in base 256, *)
(* least significant first, continued for ever by `fill` (0 for a value    *)
(* >= 0, 255 for a negative one).                                          *)

Big(fill, digits) == [k |-> "bigint", fill |-> fill, digits |-> digits]

Digit(x, i) == IF i <= Len(x.digits) THEN x.digits[i] ELSE x.fill

\* a & b and a | b on bytes, bit by bit
RECURSIVE BitAnd(_, _, _)
BitAnd(a, b, bits) ==
    IF bits = 0 THEN 0
    ELSE (a % 2) * (b % 2) + 2 * BitAnd(a \div 2, b \div 2, bits - 1)

RECURSIVE BitOr(_, _, _)
BitOr(a, b, bits) ==
    IF bits = 0 THEN 0
    ELSE Max(a % 2, b % 2) + 2 * BitOr(a \div 2, b \div 2, bits - 1)

\* x & y and x | y on BigInts
BigAnd(x, y) ==
    Big(BitAnd(x.fill, y.fill, 8),
        [i \in 1..Max(Len(x.digits), Len(y.digits)) |->
            BitAnd(Digit(x, i), Digit(y, i), 8)])

BigOr(x, y) ==
    Big(BitOr(x.fill, y.fill, 8),
        [i \in 1..Max(Len(x.digits), Len(y.digits)) |->
            BitOr(Digit(x, i), Digit(y, i), 8)])

\* x >> BigInt(64) and x << BigInt(64)
ShiftRight64(x) ==
    Big(x.fill, [i \in 1..Max(Len(x.digits) - 8, 0) |-> x.digits[i + 8]])

ShiftLeft64(x) == Big(x.fill, Zeros(8) \o x.digits)

\* BigInt('0xffffffffffffffff')
mask64 == Big(0, [i \in 1..8 |-> 255])

\* DataView.setBigUint64 / setBigInt64: the value modulo 2^64, that is its
\* 8 lowest digits, in the byte order asked
setBigUint64(view, offset, x, le) ==
    SetBytes(view, offset, [p \in 1..8 |-> Digit(x, IF le THEN p ELSE 9 - p)])

setBigInt64(view, offset, x, le) ==
    SetBytes(view, offset, [p \in 1..8 |-> Digit(x, IF le THEN p ELSE 9 - p)])

\* DataView.getBigUint64 / getBigInt64
getBigUint64(view, offset, le) ==
    Big(0, [i \in 1..8 |-> view[offset + (IF le THEN i ELSE 9 - i)]])

getBigInt64(view, offset, le) ==
    LET digits == [i \in 1..8 |-> view[offset + (IF le THEN i ELSE 9 - i)]]
    IN Big(IF digits[8] >= 128 THEN 255 ELSE 0, digits)

\* BigInt(value): a BigInt as it is, an integral Number as the BigInt of the
\* same integer
BigInt(value) ==
    IF value.k = "bigint" THEN value
    ELSE Big(IF value.n < 0 THEN 255 ELSE 0,
             [i \in 1..4 |-> (value.n \div Pow256(i - 1)) % 256])

\* types.int128.get and types.uint128.get of the registry
typeGet(type, view, offset, le) ==
    IF type = "int128"
    THEN BigOr(ShiftLeft64(getBigInt64(view, offset + (IF le THEN 8 ELSE 0), le)),
               getBigUint64(view, offset + (IF le THEN 0 ELSE 8), le))
    ELSE BigOr(ShiftLeft64(getBigUint64(view, offset + (IF le THEN 8 ELSE 0), le)),
               getBigUint64(view, offset + (IF le THEN 0 ELSE 8), le))

\* types.int128.set and types.uint128.set of the registry: the view after it
typeSet(type, view, offset, le, value) ==
    LET low == setBigUint64(view, offset + (IF le THEN 0 ELSE 8),
                            BigAnd(BigInt(value), mask64), le)
    IN IF type = "int128"
       THEN setBigInt64(low, offset + (IF le THEN 8 ELSE 0),
                        ShiftRight64(BigInt(value)), le)
       ELSE setBigUint64(low, offset + (IF le THEN 8 ELSE 0),
                         ShiftRight64(BigInt(value)), le)

\* the setInt128 and setUint128 branches of serialize: `value & mask64` and
\* `value >> BigInt(64)` on the field's value as it is, a TypeError when it
\* is a Number (BigInts and Numbers do not mix)
serializeWide(type, view, iOff, bigEndian, value) ==
    IF value.k # "bigint" THEN Bytes("TypeError", <<>>)
    ELSE LET low == setBigUint64(view, iOff + (IF ~bigEndian THEN 0 ELSE 8),
                                 BigAnd(value, mask64), ~bigEndian)
         IN Bytes("",
               IF type = "int128"
               THEN setBigInt64(low, iOff + (IF ~bigEndian THEN 8 ELSE 0),
                                ShiftRight64(value), ~bigEndian)
               ELSE setBigUint64(low, iOff + (IF ~bigEndian THEN 8 ELSE 0),
                                 ShiftRight64(value), ~bigEndian))

\* the getInt128 and getUint128 branches of deserialize
deserializeWide(type, view, iOff, bigEndian) ==
    IF type = "int128"
    THEN BigOr(ShiftLeft64(getBigInt64(view, iOff + (IF ~bigEndian THEN 8 ELSE 0),
                                       ~bigEndian)),
               getBigUint64(view, iOff + (IF ~bigEndian THEN 0 ELSE 8), ~bigEndian))
    ELSE BigOr(ShiftLeft64(getBigUint64(view, iOff + (IF ~bigEndian THEN 8 ELSE 0),
                                        ~bigEndian)),
               getBigUint64(view, iOff + (IF ~bigEndian THEN 0 ELSE 8), ~bigEndian))

\* v is a value of the type: 0 <= v < 2^128, or -2^127 <= v < 2^127
InRange(type, v) ==
    IF v.k = "number" THEN type = "int128" \/ v.n >= 0
    ELSE /\ Len(v.digits) = 16
         /\ v.fill = IF type = "int128" /\ v.digits[16] >= 128 THEN 255 ELSE 0

\* values whose halves begin and end with the digits that matter: 0, 1, the
\* sign bit alone, all ones
DigitSamples == {0, 1, 128, 255}

WideValues ==
    { Big(fill, [i \in 1..16 |->
                    CASE i = 1 -> a [] i = 8 -> b [] i = 9 -> c [] i = 16 -> d
                      [] OTHER -> 0]) :
          a \in DigitSamples, b \in DigitSamples, c \in DigitSamples,
          d \in DigitSamples, fill \in {0, 255} }

\* the values a 128-bit field is given as Numbers
NumberSamples == { Num(Sample("uint32", k)) : k \in 0..MaxCount } \cup {Num(-1)}

WideTypes == {"int128", "uint128"}

\* one call of a codec: which code path, on what type, where, in what order
Call(path, type, offset, le) ==
    [path |-> path, type |-> type, offset |-> offset, le |-> le]

\* types[type].set(view, offset, le, v) on a zeroed buffer
RegistrySet ==
    /\ inst.k \in {"bigint", "number"}
    /\ ret.op = ""
    /\ \E type \in WideTypes, offset \in 0..MaxOffset, le \in BOOLEAN :
           /\ InRange(type, inst)
           /\ buf' = typeSet(type, buf, offset, le, inst)
           /\ ret' = Ret("set", Call("registry", type, offset, le), 0, "")
    /\ UNCHANGED <<classes, metadata, decl, err, inst, out>>

\* serialize reaching a member of a 128-bit type that holds v
StructSet ==
    /\ inst.k \in {"bigint", "number"}
    /\ ret.op = ""

    /\ \E type \in WideTypes, offset \in 0..MaxOffset, bigEndian \in BOOLEAN :
           LET r == serializeWide(type, buf, offset, bigEndian, inst)
           IN /\ InRange(type, inst)
              /\ buf' = IF r.error = "" THEN r.bytes ELSE buf
              /\ ret' = Ret("set", Call("struct", type, offset, ~bigEndian), 0, r.error)
    /\ UNCHANGED <<classes, metadata, decl, err, inst, out>>

\* types[type].get(view, offset, le) where the value was written
RegistryGet ==
    /\ ret.op = "set"
    /\ ret.error = ""
    /\ out' = typeGet(ret.arg.type, buf, ret.arg.offset, ret.arg.le)
    /\ ret' = Ret("get", ret.arg, 0, "")
    /\ UNCHANGED <<classes, metadata, decl, err, inst, buf>>

\* deserialize reaching the member
StructGet ==
    /\ ret.op = "set"
    /\ ret.error = ""
    /\ out' = deserializeWide(ret.arg.type, buf, ret.arg.offset, ~ret.arg.le)
    /\ ret' = Ret("get", ret.arg, 0, "")
    /\ UNCHANGED <<classes, metadata, decl, err, inst, buf>>

InitCodec ==
    /\ classes = <<>>
    /\ metadata = <<>>
    /\ decl = NoDecl
    /\ err = ""
    /\ inst \in { v \in WideValues \cup NumberSamples :
                      \E type \in WideTypes : InRange(type, v) }
    /\ buf = Zeros(16 + MaxOffset)
    /\ out = Undefined
    /\ ret = NoRet

NextCodec ==
    \/ RegistrySet
    \/ StructSet
    \/ RegistryGet
    \/ StructGet

SpecCodec == InitCodec /\ [][NextCodec]_vars

-----------------------------------------------------------------------------
(* 128-bit floats.  A Number is written as the 64 bits of its IEEE 754     *)
(* double: bit 63 the sign, bits 52..62 the exponent plus 1023, bits 0..51 *)
(* the fraction.                                                           *)

RECURSIVE Pow2(_)
Pow2(e) == IF e = 0 THEN 1 ELSE 2 * Pow2(e - 1)

\* floor(log2(a)) for a >= 1

RECURSIVE Log2(_)
Log2(a) == IF a <= 1 THEN 0 ELSE 1 + Log2(a \div 2)

\* the 64 bits of the double that holds the integer n, bit 0 the lowest
Float64Bits(n) ==
    LET a == Abs(n)
        e == Log2(a)
    IN [j \in 0..63 |->
           IF j = 63 THEN (IF n < 0 THEN 1 ELSE 0)
           ELSE IF a = 0 THEN 0
           ELSE IF j >= 52 THEN ((1023 + e) \div Pow2(j - 52)) % 2
           ELSE IF j >= 52 - e THEN (a \div Pow2(j - (52 - e))) % 2
           ELSE 0]

\* its 8 bytes, the least significant first
Float64Digits(n) ==
    LET bits == Float64Bits(n)
    IN [p \in 1..8 |->
           bits[8 * (p - 1)] + 2 * bits[8 * (p - 1) + 1]
           + 4 * bits[8 * (p - 1) + 2] + 8 * bits[8 * (p - 1) + 3]
           + 16 * bits[8 * (p - 1) + 4] + 32 * bits[8 * (p - 1) + 5]
           + 64 * bits[8 * (p - 1) + 6] + 128 * bits[8 * (p - 1) + 7]]

\* the Number that 8 bytes (least significant first) hold: the integer when
\* they are the double of an integer below 2^31, and the bytes themselves
\* (a double that is no such integer) otherwise
Float64Value(digits) ==
    LET bit(j) == (digits[(j \div 8) + 1] \div Pow2(j % 8)) % 2
        sign == digits[8] \div 128
        exponent == (digits[8] % 128) * 16 + digits[7] \div 16
        e == exponent - 1023
        a == Pow2(e) + (IF e = 0 THEN 0
                        ELSE LET RECURSIVE Sum(_)
                                 Sum(i) == IF i < 0 THEN 0
                                           ELSE bit(i + 52 - e) * Pow2(i) + Sum(i - 1)
                             IN Sum(e - 1))
    IN IF \A p \in 1..8 : digits[p] = 0 THEN Num(0)
       ELSE IF e >= 0 /\ e <= 30 /\ \A j \in 0..(51 - e) : bit(j) = 0
            THEN Num(IF sign = 1 THEN -a ELSE a)
            ELSE [k |-> "float", digits |-> digits]

\* DataView.setFloat64 and DataView.getFloat64
setFloat64(view, offset, value, le) ==
    SetBytes(view, offset,
             [p \in 1..8 |-> Float64Digits(value.n)[IF le THEN p ELSE 9 - p]])

getFloat64(view, offset, le) ==
    Float64Value([i \in 1..8 |-> view[offset + (IF le THEN i ELSE 9 - i)]])

\* Number(value): a Number as it is, a BigInt of at most 31 bits as the
\* Number of the same integer
Number(value) ==
    IF value.k = "number" THEN value
    ELSE IF value.fill = 0
         THEN Num(Digit(value, 1) + 256 * Digit(value, 2)
                  + 65536 * Digit(value, 3) + 16777216 * Digit(value, 4))
         ELSE Num(-1 - ((255 - Digit(value, 1)) + 256 * (255 - Digit(value, 2))
                        + 65536 * (255 - Digit(value, 3))
                        + 16777216 * (255 - Digit(value, 4))))

\* the double in the half at offset + 8 in little-endian order and at
\* offset + 0 in big-endian order, zeros in the other half
float128SetHigh(view, offset, le, value) ==
    setBigUint64(setFloat64(view, offset + (IF le THEN 8 ELSE 0), value, le),
                 offset + (IF le THEN 0 ELSE 8), Big(0, <<>>), le)

\* types.float128.set of the registry: the view after it
float128Set(view, offset, le, value) ==
    setBigUint64(setFloat64(view, offset + (IF le THEN 0 ELSE 8), value, le),
                 offset + (IF le THEN 8 ELSE 0), Big(0, <<>>), le)

\* types.float128.get of the registry
float128Get(view, offset, le) ==
    getFloat64(view, offset + (IF le THEN 0 ELSE 8), le)

\* the setFloat128 branch of serialize
serializeFloat128(view, iOff, bigEndian, value) ==
    setBigUint64(setFloat64(view, iOff + (IF ~bigEndian THEN 0 ELSE 8),
                            Number(value), ~bigEndian),
                 iOff + (IF ~bigEndian THEN 8 ELSE 0), Big(0, <<>>), ~bigEndian)

\* the getFloat128 branch of deserialize
deserializeFloat128(view, iOff, bigEndian) ==
    getFloat64(view, iOff + (IF ~bigEndian THEN 0 ELSE 8), ~bigEndian)

\* the Numbers a float128 field is given: 0, 1, -1, 2, 3, -258, 65536 and the
\* sample values of the integer fields
FloatSamples ==
    NumberSamples
    \cup {Num(1), Num(2), Num(3), Num(-(256 + MaxCount)), Num(65536)}

\* what stands in the buffer before the write: zeros, or all ones
Backgrounds == {Zeros(16 + MaxOffset), [p \in 1..(16 + MaxOffset) |-> 255]}

\* types.float128.set(view, offset, le, v); DataView.setFloat64 takes no
\* BigInt
FloatRegistrySet ==
    /\ inst.k \in {"bigint", "number"}
    /\ ret.op = ""
    /\ \E offset \in 0..MaxOffset, le \in BOOLEAN :
           /\ buf' = IF inst.k = "number"
                     THEN float128Set(buf, offset, le, inst) ELSE buf
           /\ ret' = Ret("set", Call("registry", "float128", offset, le), 0,
                         IF inst.k = "number" THEN "" ELSE "TypeError")
    /\ UNCHANGED <<classes, metadata, decl, err, inst, out>>

\* serialize reaching a float128 member that holds v
FloatStructSet ==
    /\ inst.k \in {"bigint", "number"}
    /\ ret.op = ""
    /\ \E offset \in 0..MaxOffset, bigEndian \in BOOLEAN :
           /\ buf' = serializeFloat128(buf, offset, bigEndian, inst)
           /\ ret' = Ret("set", Call("struct", "float128", offset, ~bigEndian), 0, "")
    /\ UNCHANGED <<classes, metadata, decl, err, inst, out>>

\* types.float128.get(view, offset, le) where the value was written
FloatRegistryGet ==
    /\ ret.op = "set"
    /\ ret.error = ""
    /\ out' = float128Get(buf, ret.arg.offset, ret.arg.le)
    /\ ret' = Ret("get", ret.arg, 0, "")
    /\ UNCHANGED <<classes, metadata, decl, err, inst, buf>>

\* deserialize reaching the member
FloatStructGet ==
    /\ ret.op = "set"
    /\ ret.error = ""
    /\ out' = deserializeFloat128(buf, ret.arg.offset, ~ret.arg.le)
    /\ ret' = Ret("get", ret.arg, 0, "")
    /\ UNCHANGED <<classes, metadata, decl, err, inst, buf>>

InitFloat ==
    /\ classes = <<>>
    /\ metadata = <<>>
    /\ decl = NoDecl
    /\ err = ""
    /\ inst \in FloatSamples \cup { BigInt(v) : v \in FloatSamples }
    /\ buf \in Backgrounds
    /\ out = Undefined
    /\ ret = NoRet

NextFloat ==
    \/ FloatRegistrySet
    \/ FloatStructSet
    \/ FloatRegistryGet
    \/ FloatStructGet

SpecFloat == InitFloat /\ [][NextFloat]_vars

-----------------------------------------------------------------------------
(* align on its own: called on a value and an alignment, and again on its  *)
(* own result.                                                             *)

AlignCall(value, alignment) == [value |-> value, alignment |-> alignment]

\* align(x, a) for the x drawn at the start and any a
Align ==
    /\ ret.op = ""
    /\ \E alignment \in 1..MaxAlignment :
           ret' = Ret("align", AlignCall(inst.n, alignment),
                      align(inst.n, alignment), "")
    /\ UNCHANGED <<classes, metadata, decl, err, inst, buf, out>>

\* align(align(x, a), a)
Realign ==
    /\ ret.op = "align"
    /\ ret' = Ret("realign", AlignCall(ret.val, ret.arg.alignment),
                  align(ret.val, ret.arg.alignment), "")
    /\ UNCHANGED <<classes, metadata, decl, err, inst, buf, out>>

InitAlign ==
    /\ classes = <<>>
    /\ metadata = <<>>
    /\ decl = NoDecl
    /\ err = ""
    /\ inst \in { Num(x) : x \in 0..MaxValue }
    /\ buf = <<>>
    /\ out = Undefined
    /\ ret = NoRet

NextAlign ==
    \/ Align
    \/ Realign

SpecAlign == InitAlign /\ [][NextAlign]_vars

-----------------------------------------------------------------------------
(* The ranged cache of one resource.  A region is its offset, its ranges   *)
(* (absolute) and its data; `spare` is what the ArrayBuffer under the data *)
(* holds past the end of the data (bytes cut off by subarray).             *)

Range(start, end) == [start |-> start, end |-> end]

Region(offset, ranges, data, spare) ==
    [offset |-> offset, ranges |-> ranges, data |-> data, spare |-> spare]

Min(a, b) == IF a <= b THEN a ELSE b

\* extendBuffer(region.data, newByteLength): the data as it is when it is
\* long enough; otherwise a view of newByteLength bytes at the start of the
\* buffer, which is the same buffer when it is long enough and a copy of it
\* followed by zeros when it is not
extendBuffer(region, newByteLength) ==
    LET whole == region.data \o region.spare
    IN IF Len(region.data) >= newByteLength THEN region
       ELSE IF Len(whole) >= newByteLength
            THEN [region EXCEPT !.data = SubSeq(whole, 1, newByteLength),
                                !.spare = SubSeq(whole, newByteLength + 1, Len(whole))]
            ELSE [region EXCEPT !.data = whole \o Zeros(newByteLength - Len(whole)),
                                !.spare = <<>>]

\* ranges.sort((a, b) => a.start - b.start): stable, by start alone
InsertRange(sorted, range) ==
    LET k == Cardinality({i \in 1..Len(sorted) : sorted[i].start <= range.start})
    IN SubSeq(sorted, 1, k) \o <<range>> \o SubSeq(sorted, k + 1, Len(sorted))

RECURSIVE sortRanges(_)
sortRanges(ranges) ==
    IF ranges = <<>> THEN <<>>
    ELSE InsertRange(sortRanges(SubSeq(ranges, 1, Len(ranges) - 1)),
                     ranges[Len(ranges)])

\* the reduce of collect: a range that begins at or before the end of the
\* last one kept is joined to it
RECURSIVE combineRanges(_)
combineRanges(ranges) ==
    IF ranges = <<>> THEN <<>>
    ELSE LET acc == combineRanges(SubSeq(ranges, 1, Len(ranges) - 1))
             range == ranges[Len(ranges)]
         IN IF acc = <<>> \/ acc[Len(acc)].end < range.start
            THEN Append(acc, range)
            ELSE [acc EXCEPT ![Len(acc)].end = Max(acc[Len(acc)].end, range.end)]

\* the loop of collect from index i (regions[i] is `current`)
RECURSIVE collectFrom(_, _, _)
collectFrom(regions, i, regionGapThreshold) ==
    IF i >= Len(regions) THEN regions
    ELSE LET current == regions[i]
             next == regions[i + 1]
         IN IF next.offset - (current.offset + Len(current.data)) > regionGapThreshold
            THEN collectFrom(regions, i + 1, regionGapThreshold)
            ELSE LET extended == extendBuffer(current, next.offset + Len(next.data))
                     merged ==
                         [extended EXCEPT
                             !.ranges = combineRanges(sortRanges(current.ranges \o next.ranges)),
                             !.data = SetBytes(extended.data,
                                               next.offset - current.offset, next.data)]
                 IN collectFrom(SubSeq(regions, 1, i - 1) \o <<merged>>
                                    \o SubSeq(regions, i + 2, Len(regions)),
                                i, regionGapThreshold)

\* the regions left as they are
collectNothing(resource) == resource.regions

\* resource.collect(): the regions after it
collect(resource) ==

    IF ~resource.sparse THEN resource.regions
    ELSE collectFrom(resource.regions, 1, resource.regionGapThreshold)

\* the loops of missing: m is [start, ranges, stop]
MissingState(start, ranges, stop) == [start |-> start, ranges |-> ranges, stop |-> stop]

RECURSIVE missingInRegion(_, _, _, _)
missingInRegion(ranges, k, m, end) ==
    IF k > Len(ranges) THEN m
    ELSE LET range == ranges[k]
         IN IF range.end <= m.start THEN missingInRegion(ranges, k + 1, m, end)
            ELSE IF range.start >= end THEN m
            ELSE LET pushed == IF range.start > m.start
                               THEN Append(m.ranges,
                                           Range(m.start, Min(range.start, end)))
                               ELSE m.ranges
                     start == Max(m.start, range.end)
                 IN IF start >= end THEN MissingState(start, pushed, TRUE)
                    ELSE missingInRegion(ranges, k + 1,
                                         MissingState(start, pushed, FALSE), end)

RECURSIVE missingFrom(_, _, _, _)
missingFrom(regions, i, m, end) ==
    IF i > Len(regions) \/ regions[i].offset >= end THEN m
    ELSE LET after == missingInRegion(regions[i].ranges, 1, m, end)
         IN IF after.start >= end THEN after
            ELSE missingFrom(regions, i + 1, after, end)

\* resource.missing(start, end)
missing(resource, start, end) ==
    LET m == missingFrom(resource.regions, 1, MissingState(start, <<>>, FALSE), end)
    IN IF m.start < end THEN Append(m.ranges, Range(m.start, end)) ELSE m.ranges

\* the loops of cached: the clipped ranges in the order they are met
RECURSIVE cachedInRegion(_, _, _, _)
cachedInRegion(ranges, k, start, end) ==
    IF k > Len(ranges) THEN <<>>
    ELSE LET range == ranges[k]
         IN IF range.end <= start THEN cachedInRegion(ranges, k + 1, start, end)
            ELSE IF range.start >= end THEN <<>>
            ELSE <<Range(Max(start, range.start), Min(end, range.end))>>
                 \o cachedInRegion(ranges, k + 1, start, end)

RECURSIVE cachedFrom(_, _, _, _)
cachedFrom(regions, i, start, end) ==
    IF i > Len(regions) \/ regions[i].offset >= end THEN <<>>
    ELSE cachedInRegion(regions[i].ranges, 1, start, end)
         \o cachedFrom(regions, i + 1, start, end)

\* the merge of cached: a range that begins at or before the end of the last
\* one kept is joined to it
RECURSIVE mergeRanges(_)
mergeRanges(ranges) ==
    IF ranges = <<>> THEN <<>>
    ELSE LET merged == mergeRanges(SubSeq(ranges, 1, Len(ranges) - 1))
             curr == ranges[Len(ranges)]
         IN IF merged # <<>> /\ curr.start <= merged[Len(merged)].end
            THEN [merged EXCEPT ![Len(merged)].end = Max(merged[Len(merged)].end, curr.end)]
            ELSE Append(merged, curr)

\* resource.cached(start, end)
cached(resource, start, end) ==
    mergeRanges(sortRanges(cachedFrom(resource.regions, 1, start, end)))

\* resource.regionAt(offset): the index of the region, 0 for undefined
RECURSIVE regionAtFrom(_, _, _)
regionAtFrom(regions, i, offset) ==
    IF i > Len(regions) \/ regions[i].offset > offset THEN 0
    ELSE IF offset >= regions[i].offset
            /\ offset < regions[i].offset + Len(regions[i].data)
         THEN i
         ELSE regionAtFrom(regions, i + 1, offset)

regionAt(resource, offset) == regionAtFrom(resource.regions, 1, offset)

\* regions.findIndex(region => region.offset > offset): 0 for -1
findIndex(regions, offset) ==
    LET later == {i \in 1..Len(regions) : regions[i].offset > offset}
    IN IF later = {} THEN 0 ELSE CHOOSE i \in later : \A j \in later : i <= j

\* resource.add(data, offset): the resource after it
add(resource, data, offset) ==
    LET end == offset + Len(data)
        at == regionAt(resource, offset)
        put ==
            IF at # 0
            THEN LET extended == extendBuffer(resource.regions[at], end)
                 IN [resource.regions EXCEPT
                        ![at] = [extended EXCEPT
                                    !.data = SetBytes(extended.data, offset, data),
                                    !.ranges = sortRanges(Append(extended.ranges,
                                                                 Range(offset, end)))]]
            ELSE LET newRegion == Region(offset, <<Range(offset, end)>>, data, <<>>)
                     insertIndex == findIndex(resource.regions, offset)
                 IN IF insertIndex = 0 THEN Append(resource.regions, newRegion)
                    ELSE SubSeq(resource.regions, 1, insertIndex - 1) \o <<newRegion>>
                         \o SubSeq(resource.regions, insertIndex, Len(resource.regions))
    IN [resource EXCEPT !.regions = collect([resource EXCEPT !.regions = put])]

\* the region as `resource.size = value` leaves it, for value < size and
\* region.offset < value
shrink(region, value) ==
    LET maxLength == value - region.offset
        kept == SelectSeq(region.ranges, LAMBDA range : range.start < value)
    IN [region EXCEPT
           !.data = IF Len(region.data) > maxLength
                    THEN SubSeq(region.data, 1, maxLength) ELSE region.data,
           !.spare = IF Len(region.data) > maxLength
                     THEN SubSeq(region.data, maxLength + 1, Len(region.data))
                          \o region.spare
                     ELSE region.spare,
           !.ranges = [k \in 1..Len(kept) |->
                          IF kept[k].end > value THEN Range(kept[k].start, value)
                          ELSE kept[k]]]

\* resource.size = value: the resource after it
setSize(resource, value) ==
    IF value >= resource.size THEN [resource EXCEPT !.size = value]
    ELSE LET left == SelectSeq(resource.regions, LAMBDA region : region.offset < value)
         IN [resource EXCEPT
                !.size = value,
                !.regions = [i \in 1..Len(left) |-> shrink(left[i], value)]]

\* new Resource(id, size, options)
Resource(size, sparse, regionGapThreshold) ==
    [k |-> "resource", size |-> size, sparse |-> sparse,
     regionGapThreshold |-> regionGapThreshold,
     regions |-> IF sparse THEN <<>>
                 ELSE <<Region(0, <<>>, Zeros(size), <<>>)>>,
     adds |-> 0,
     written |-> [p \in 1..MaxEnd |-> 0]]

\* the bytes that one add() brings for [offset, offset + length): the
\* resource's byte at offset p is p + 1 in its first state and p + 101 in
\* its second
Content(offset, length, version) ==
    [p \in 1..length |-> 100 * version + offset + p]

\* resource.add(data, offset), for at most MaxAdds calls; `written` keeps
\* the byte last added for each offset
Add(versions) ==
    /\ inst.k = "resource"
    /\ inst.adds < MaxAdds
    /\ \E offset \in 0..(MaxEnd - 1), length \in 0..MaxData, version \in versions :
           /\ offset + length <= MaxEnd
           /\ length = 0 => version = 0
           /\ LET data == Content(offset, length, version)
                  added == add(inst, data, offset)
              IN /\ inst' = [added EXCEPT
                                !.adds = inst.adds + 1,
                                !.written = SetBytes(inst.written, offset, data)]
                 /\ ret' = Ret("add", [offset |-> offset, data |-> data], 0, "")
    /\ out' = Undefined
    /\ UNCHANGED <<classes, metadata, decl, err, buf>>

\* resource.collect()
Collect ==
    /\ inst.k = "resource"
    /\ inst' = [inst EXCEPT !.regions = collect(inst)]
    /\ ret' = Ret("collect", "", 0, "")
    /\ out' = Undefined
    /\ UNCHANGED <<classes, metadata, decl, err, buf>>

\* resource.size = value
SetSize ==
    /\ inst.k = "resource"
    /\ \E value \in 0..MaxEnd :
           /\ inst' = setSize(inst, value)
           /\ ret' = Ret("size", value, 0, "")
    /\ out' = Undefined
    /\ UNCHANGED <<classes, metadata, decl, err, buf>>

\* resource.missing(start, end) and resource.cached(start, end)
Query ==
    /\ inst.k = "resource"
    /\ \E start \in 0..(MaxEnd - 1), end \in 1..MaxEnd :
           /\ start < end
           /\ out' = [missing |-> missing(inst, start, end),
                      cached |-> cached(inst, start, end)]
           /\ ret' = Ret("query", Range(start, end), 0, "")
    /\ UNCHANGED <<classes, metadata, decl, err, inst, buf>>

InitCache ==
    /\ classes = <<>>
    /\ metadata = <<>>
    /\ decl = NoDecl
    /\ err = ""
    /\ inst \in { Resource(MaxEnd, TRUE, regionGapThreshold) :
                      regionGapThreshold \in 0..MaxThreshold }
                \cup {Resource(MaxEnd, FALSE, 0)}
    /\ buf = <<>>
    /\ out = Undefined
    /\ ret = NoRet

\* cache.add(data, from) for each range of `ranges` from index k on, data
\* being the resource's bytes of the range
RECURSIVE addAll(_, _, _, _)
addAll(resource, ranges, k, version) ==
    IF k > Len(ranges) THEN resource
    ELSE addAll(add(resource,
                    Content(ranges[k].start, ranges[k].end - ranges[k].start, version),
                    ranges[k].start),
                ranges, k + 1, version)

\* the bytes last added for each offset, after the same
RECURSIVE writeAll(_, _, _, _)
writeAll(written, ranges, k, version) ==
    IF k > Len(ranges) THEN written
    ELSE writeAll(SetBytes(written, ranges[k].start,
                           Content(ranges[k].start, ranges[k].end - ranges[k].start,
                                   version)),
                  ranges, k + 1, version)

\* get(url, { start, end }) with a cache for the url and a remote that
\* answers every range request with the bytes of the range: the missing
\* ranges are added, collect() runs, and the result is cut from
\* regionAt(start), a TypeError when there is no such region
Fetch(versions) ==
    /\ inst.k = "resource"
    /\ inst.adds < MaxAdds
    /\ \E start \in 0..(MaxEnd - 1), end \in 1..MaxEnd, version \in versions :
           /\ start < end
           /\ LET ranges == missing(inst, start, end)
                  filled == addAll(inst, ranges, 1, version)
                  cache == [filled EXCEPT
                               !.regions = collect(filled),
                               !.adds = inst.adds + 1,
                               !.written = writeAll(inst.written, ranges, 1, version)]
                  at == regionAt(cache, start)
              IN /\ inst' = cache
                 /\ out' = IF at = 0 THEN Undefined
                           ELSE [region |-> at,
                                 data |-> Subarray(cache.regions[at].data,
                                                   start - cache.regions[at].offset,
                                                   end - cache.regions[at].offset)]
                 /\ ret' = Ret("get", Range(start, end), 0,
                               IF at = 0 THEN "TypeError" ELSE "")
    /\ UNCHANGED <<classes, metadata, decl, err, buf>>

\* a cache filled by add() and by get(), with data that changes
NextCache ==
    \/ Add({0, 1})
    \/ Collect
    \/ Fetch({0, 1})

SpecCache == InitCache /\ [][NextCache]_vars

\* the ranges of a cache whose resource changes size
NextRanges ==
    \/ Add({0})

    \/ Collect
    \/ SetSize
    \/ Query

SpecRanges == InitCache /\ [][NextRanges]_vars

\* records of every kind at once: scalars, fixed and counted arrays and
\* embedded records, packed or aligned, structs or unions
BoundsInits ==
    {MemberInit("a", "uint8", NoLength), MemberInit("b", "uint16", NumLength(2)),
     MemberInit("c", "uint8", KeyLength("a"))}
    \cup { MemberInit("d", t, NoLength) : t \in Declared }

BoundsOptions ==
    { [align |-> a, isUnion |-> u, bigEndian |-> FALSE] : a \in {0, 2}, u \in BOOLEAN }

NextBounds ==
    \/ ClassBegin(MaxClasses - 1)
    \/ member(BoundsInits)
    \/ struct(BoundsOptions)
    \/ New
    \/ SetField
    \/ Serialize

SpecBounds == Init /\ [][NextBounds]_vars

-----------------------------------------------------------------------------
(* The shell: a context fed the terminal's key events.  Strings are        *)
(* sequences of characters.  The terminal is the text it shows after the   *)
(* prompt on the cursor's line and x, the cursor's column minus the length *)
(* of the prompt; the prompt is the default one, ''.  `awaited` tells      *)
(* whether the handler awaits onLine before it resets the context.         *)

Terminal(shown, x) == [shown |-> shown, x |-> x]

\* createShellContext, and the context literal of createShell
ShellContext(awaited) ==
    [k |-> "shell", awaited |-> awaited, terminal |-> Terminal(<<>>, 0),
     input |-> <<>>, index |-> -1, currentInput |-> <<>>, inputs |-> <<>>,
     pending |-> 0]

\* s.slice(begin, end) for 0 <= begin
Slice(s, begin, end) ==
    SubSeq(s, Min(begin, Len(s)) + 1, Min(end, Len(s)))

\* clear(), then terminal.write(text): the line holds the text, the cursor
\* is after it
Rewritten(text) == Terminal(text, Len(text))

\* terminal.write(data) for a printable character: it is put at the cursor
Typed(terminal, data) ==
    Terminal(Slice(terminal.shown, 0, terminal.x) \o <<data>>
                 \o Slice(terminal.shown, terminal.x + 1, Len(terminal.shown)),
             terminal.x + 1)

\* terminal.write('\b\x1b[P'): the cursor moves back and the character under
\* it is deleted
Erased(terminal) ==
    Terminal(Slice(terminal.shown, 0, terminal.x - 1)
                 \o Slice(terminal.shown, terminal.x, Len(terminal.shown)),
             terminal.x - 1)

\* what one run of handleData leaves: the context and the lines onLine was
\* called with
Handled(context, calls) == [context |-> context, calls |-> calls]

\* the statements of case '\r' after onLine in the handler that awaits it
resume(context) ==
    [context EXCEPT !.index = -1, !.input = <<>>,
                    !.terminal = Terminal(<<>>, 0)]

\* handleData($, data); `resolved` tells whether an awaited onLine is
\* settled before the next event
handleData(context, data, resolved) ==
    LET shell == IF context.index = -1
             THEN [context EXCEPT !.currentInput = context.input]
             ELSE context
        x == shell.terminal.x
    IN CASE data = "ArrowUp" ->
              LET index == IF shell.index < Len(shell.inputs) - 1
                           THEN shell.index + 1 ELSE shell.index
                  input == IF shell.index < Len(shell.inputs) - 1
                           THEN shell.inputs[index + 1] ELSE shell.input
              IN Handled([shell EXCEPT !.index = index, !.input = input,
                                   !.terminal = Rewritten(input)], <<>>)
         [] data = "ArrowDown" ->
              LET input == IF shell.index < 0 THEN shell.input
                           ELSE IF shell.index = 0 THEN shell.currentInput
                           ELSE shell.inputs[(shell.index - 1) + 1]
                  index == IF shell.index >= 0 THEN shell.index - 1 ELSE shell.index
              IN Handled([shell EXCEPT !.index = index, !.input = input,
                                   !.terminal = Rewritten(input)], <<>>)
         [] data = "Backspace" ->
              IF x <= 0 THEN Handled(shell, <<>>)
              ELSE Handled([shell EXCEPT
                               !.terminal = Erased(shell.terminal),
                               !.input = Slice(shell.input, 0, x - 1)
                                             \o Slice(shell.input, x, Len(shell.input))],
                           <<>>)
         [] data = "Enter" ->
              LET inputs == IF shell.inputs = <<>> \/ shell.input # shell.inputs[1]
                            THEN <<shell.input>> \o shell.inputs ELSE shell.inputs
              IN IF shell.awaited
                 THEN LET called == [shell EXCEPT !.inputs = inputs,
                                              !.terminal = Terminal(<<>>, 0)]
                      IN Handled(IF resolved THEN resume(called)
                                 ELSE [called EXCEPT !.pending = shell.pending + 1],
                                 <<shell.input>>)
                 ELSE Handled([shell EXCEPT !.inputs = inputs, !.index = -1,
                                        !.input = <<>>,
                                        !.terminal = Terminal(<<>>, 0)],
                              <<shell.currentInput>>)
         [] OTHER ->
              Handled([shell EXCEPT
                          !.terminal = Typed(shell.terminal, data),
                          !.input = Slice(shell.input, 0, x) \o <<data>>
                                        \o Slice(shell.input, x, Len(shell.input))],
                      <<>>)

\* the characters typed
Characters == {"a", "b"}

\* the key events: typing, backspace, history navigation, Enter
Keys == Characters \cup {"Backspace", "ArrowUp", "ArrowDown", "Enter"}

\* terminal.onData(data => handleData(context, data)): one key event, for
\* lines of at most MaxLine characters and a history of at most MaxHistory
\* lines; `out` keeps what the terminal showed when the key was pressed and
\* the calls of onLine
Data ==
    /\ inst.k = "shell"
    /\ \E data \in Keys, resolved \in BOOLEAN :
           /\ data \in Characters => Len(inst.input) < MaxLine
           /\ data = "Enter" =>
                  /\ Len(inst.inputs) < MaxHistory
                  /\ inst.pending < MaxPending \/ resolved
           /\ (data # "Enter" \/ ~inst.awaited) => resolved
           /\ LET r == handleData(inst, data, resolved)
              IN /\ inst' = r.context
                 /\ out' = [shown |-> inst.terminal.shown, calls |-> r.calls]
                 /\ ret' = Ret("data", data, 0, "")
    /\ UNCHANGED <<classes, metadata, decl, err, buf>>

\* the promise of onLine settles and the handler that awaited it goes on
Resume ==
    /\ inst.k = "shell"
    /\ inst.pending > 0
    /\ inst' = [resume(inst) EXCEPT !.pending = inst.pending - 1]
    /\ out' = [shown |-> inst.terminal.shown, calls |-> <<>>]
    /\ ret' = Ret("resume", "", 0, "")
    /\ UNCHANGED <<classes, metadata, decl, err, buf>>

InitShell ==
    /\ classes = <<>>
    /\ metadata = <<>>
    /\ decl = NoDecl
    /\ err = ""
    /\ inst \in { ShellContext(awaited) : awaited \in BOOLEAN }
    /\ buf = <<>>
    /\ out = Undefined
    /\ ret = NoRet

NextShell ==
    \/ Data
    \/ Resume

SpecShell == InitShell /\ [][NextShell]_vars




\* aligned records of scalars and embedded records, read from buffers of
\* every length into instances whose record fields may be empty
ShortInits ==
    {MemberInit("a", "uint8", NoLength), MemberInit("b", "uint16", NoLength)}
    \cup { MemberInit("d", t, NoLength) : t \in Declared }

ShortOptions ==
    { [align |-> a, isUnion |-> FALSE, bigEndian |-> FALSE] : a \in {0, 2} }

NextShort ==
    \/ ClassBegin(MaxClasses - 1)
    \/ member(ShortInits)
    \/ struct(ShortOptions)
    \/ New
    \/ SetField
    \/ Serialize
    \/ DeserializeFrom

SpecShort == Init /\ [][NextShort]_vars

\* records and unions of a 32-bit scalar and an array of 4 bytes
UnionInits ==
    {MemberInit("a", "uint32", NoLength), MemberInit("b", "uint8", NumLength(4))}

UnionOptions ==
    { [align |-> 0, isUnion |-> u, bigEndian |-> FALSE] : u \in BOOLEAN }

NextUnion ==
    \/ ClassBegin(MaxClasses - 1)
    \/ member(UnionInits)
    \/ struct(UnionOptions)
    \/ New
    \/ SetField
    \/ Serialize
    \/ Deserialize

SpecUnion == Init /\ [][NextUnion]_vars

-----------------------------------------------------------------------------
(* The zero-copy flavor: a record instance is a view {buffer, byteOffset}  *)
(* over a backing buffer, here buf; its accessors go to the buffer at      *)
(* byteOffset + offset of the member, in the record's byte order.  A view  *)
(* keeps how it was obtained: bound by the program, nested (returned by    *)
(* the accessor of a record-typed member) or constructed anew.             *)

View(cls, byteOffset, via) ==
    [k |-> "view", cls |-> cls, byteOffset |-> byteOffset, via |-> via]

\* the absolute position of member `name` of the view in the backing buffer
viewOffset(md, view, name) ==
    view.byteOffset + MapGet(md[view.cls].members, name).staticOffset

\* the accessor of a record-typed member: a nested instance bound to the
\* same buffer at the computed sub-offset
nestedView(md, view, name) ==
    View(MapGet(md[view.cls].members, name).type, viewOffset(md, view, name), "nested")

\* an accessor that answers from a copy taken when the view was bound
viewGetCached(md, view, name, buffer) == 0

\* read path of a primitive scalar member
viewGet(md, view, name, buffer) ==
    Decode(GetBytes(buffer, viewOffset(md, view, name),
                    sizeof(md, MapGet(md[view.cls].members, name).type)),
           ~md[view.cls].options.bigEndian)

\* write path of a primitive scalar member: the buffer after the write
viewSet(md, view, name, value, buffer) ==
    SetBytes(buffer, viewOffset(md, view, name),
             Encode(value, sizeof(md, MapGet(md[view.cls].members, name).type),
                    ~md[view.cls].options.bigEndian))

\* the members of the view's record type that hold a record / a primitive
RecordMembers(md, cls) ==
    { n \in MemberNames(md, cls) : ~isValid(MapGet(md[cls].members, n).type) }

ScalarMembers(md, cls) == MemberNames(md, cls) \ RecordMembers(md, cls)

\* the views a program holds on the bytes of the bound instance: the
\* instance, the nested views its accessors return, and views constructed
\* anew over the same bytes
ViewsOf(md, view) ==
    LET held == {view} \cup { nestedView(md, view, n) : n \in RecordMembers(md, view.cls) }
    IN held \cup { View(v.cls, v.byteOffset, "new") : v \in held }

\* what is recorded of an access: the view, the member and the bytes touched
Access(md, view, name) ==
    [view |-> view, name |-> name, off |-> viewOffset(md, view, name),
     size |-> sizeof(md, MapGet(md[view.cls].members, name).type)]

\* r = new R(): a view bound to a fresh zeroed buffer of sizeof(R) bytes
Bind ==
    /\ ~decl.active
    /\ inst.k = "undefined"
    /\ \E cls \in Declared :
           /\ inst' = View(cls, 0, "bound")
           /\ buf' = Zeros(metadata[cls].staticSize)
    /\ UNCHANGED <<classes, metadata, decl, err, out, ret>>

\* v.name = value, through any of the views
ViewWrite ==
    /\ inst.k = "view"
    /\ \E view \in ViewsOf(metadata, inst) :
       \E name \in ScalarMembers(metadata, view.cls), k \in 0..MaxCount :
           LET value == Sample(MapGet(metadata[view.cls].members, name).type, k)
           IN /\ buf' = viewSet(metadata, view, name, value, buf)
              /\ out' = [k |-> "write", value |-> value,
                         at |-> Access(metadata, view, name)]
    /\ ret' = NoRet
    /\ UNCHANGED <<classes, metadata, decl, err, inst>>

\* v.name, through any of the views
ViewRead ==
    /\ inst.k = "view"
    /\ \E view \in ViewsOf(metadata, inst) :
       \E name \in ScalarMembers(metadata, view.cls) :
           ret' = Ret("read", Access(metadata, view, name),
                      viewGet(metadata, view, name, buf), "")
    /\ UNCHANGED <<classes, metadata, decl, err, inst, buf, out>>

ViewInits ==
    {MemberInit("a", "uint8", NoLength), MemberInit("b", "uint16", NoLength)}
    \cup { MemberInit("d", t, NoLength) : t \in Declared }

ViewOptions ==
    { [align |-> 0, isUnion |-> FALSE, bigEndian |-> e] : e \in BOOLEAN }

NextView ==
    \/ ClassBegin(MaxClasses - 1)
    \/ member(ViewInits)
    \/ struct(ViewOptions)
    \/ Bind
    \/ ViewWrite
    \/ ViewRead

SpecView == Init /\ [][NextView]_vars

-----------------------------------------------------------------------------
(* Layout properties of declared record types.                             *)

Names(members) == [i \in 1..Len(members) |-> members[i].name]

Distinct(fields) ==
    \A i, j \in 1..Len(fields) : i # j => fields[i].name # fields[j].name

\* a record declared without a base class, its member names all different:
\* its member list is its own fields, in declaration order
Simple(cls) == classes[cls].base = NoBase /\ Distinct(classes[cls].fields)

\* every member has a fixed size: no counted-by array
AllFixed(cls) ==
    \A i \in 1..Len(classes[cls].fields) : classes[cls].fields[i].length.kind # "string"

\* the alignment option in force: 1 when not given
Alignment(cls) ==
    IF metadata[cls].options.align = 0 THEN 1 ELSE metadata[cls].options.align

\* the number of elements of a member of fixed size: 1 for a scalar, N (0
\* included) for an array of N
ElementCount(m) == IF m.length.kind = "number" THEN m.length.n ELSE 1

\* the bytes a member of fixed size occupies: sizeof(type) * length
ByteSize(m) == sizeof(metadata, m.type) * ElementCount(m)

\* offset := align(offset + sizeof(type) * length, A), folded over the first i members
RECURSIVE FoldSize(_, _, _)
FoldSize(fields, A, i) ==
    IF i = 0 THEN 0 ELSE align(FoldSize(fields, A, i - 1) + ByteSize(fields[i]), A)

RECURSIVE MaxSize(_, _)
MaxSize(fields, i) ==
    IF i = 0 THEN 0 ELSE Max(MaxSize(fields, i - 1), ByteSize(fields[i]))

\* C2: when B declares two members and D extends B declaring one more, D's
\* member list is B's members followed by D's, the inherited members keep
\* B's offsets and D's own member starts at staticSize(B)
C2_InheritanceLayout ==
    \A D \in Declared :
        LET B == classes[D].base
        IN (/\ B # NoBase
            /\ classes[B].base = NoBase
            /\ Len(classes[B].fields) = 2
            /\ Len(classes[D].fields) = 1
            /\ Distinct(classes[B].fields \o classes[D].fields))
           => LET a == classes[B].fields[1].name
                  b == classes[B].fields[2].name
                  c == classes[D].fields[1].name
              IN /\ Names(metadata[D].members) = <<a, b, c>>
                 /\ offsetof(metadata, Class(D), a) = offsetof(metadata, Class(B), a)
                 /\ offsetof(metadata, Class(D), b) = offsetof(metadata, Class(B), b)
                 /\ offsetof(metadata, Class(D), c) = Return(metadata[B].staticSize)

\* C3: the staticSize of a non-union record of fixed-size members, declared
\* with alignment A, is the fold offset := align(offset + sizeof(type) *
\* length, A) over its members in declaration order
C3_SizeAdditivity ==
    \A cls \in Declared :
        (Simple(cls) /\ AllFixed(cls) /\ ~metadata[cls].options.isUnion)
            => metadata[cls].staticSize
                   = FoldSize(classes[cls].fields, Alignment(cls), Len(classes[cls].fields))

\* C4: in a union every member is at offset 0 and staticSize is the largest
\* member byte size  sizeof(type) * length  (stated for the default alignment)
C4_UnionLayout ==
    \A cls \in Declared :
        (Simple(cls) /\ AllFixed(cls) /\ metadata[cls].options.isUnion
             /\ Alignment(cls) = 1)
            => /\ \A i \in 1..Len(metadata[cls].members) :
                      metadata[cls].members[i].staticOffset = 0
               /\ metadata[cls].staticSize
                      = MaxSize(classes[cls].fields, Len(classes[cls].fields))

\* C5: in a static non-union record with alignment 1 the first member is at
\* offset 0, each member occupies sizeof(type) * length bytes (length N for
\* an array of N, N = 0 included) and the next member starts right after it
C5_PackedOccupancy ==
    \A cls \in Declared :
        (Simple(cls) /\ AllFixed(cls) /\ ~metadata[cls].options.isUnion
             /\ Alignment(cls) = 1)
            => \A i \in 1..Len(metadata[cls].members) :
                   metadata[cls].members[i].staticOffset
                       = IF i = 1 THEN 0
                         ELSE metadata[cls].members[i - 1].staticOffset
                                  + ByteSize(metadata[cls].members[i - 1])

\* C6: the members of every accepted static non-union record, iterated in
\* order, have strictly increasing offsets
C6_OffsetMonotonicity ==
    \A cls \in Declared :
        (~metadata[cls].isDynamic /\ ~metadata[cls].options.isUnion)
            => \A i \in 2..Len(metadata[cls].members) :
                   metadata[cls].members[i - 1].staticOffset
                       < metadata[cls].members[i].staticOffset

\* C10: a record type is flagged isDynamic iff it has a counted-by array
\* member or a member whose type is a record type that is itself dynamic
C10_IsDynamic ==
    \A cls \in Declared :
        Simple(cls)
            => (metadata[cls].isDynamic
                  <=> \E i \in 1..Len(metadata[cls].members) :
                         LET m == metadata[cls].members[i]
                         IN \/ m.length.kind = "string"
                            \/ ~isValid(m.type) /\ metadata[m.type].isDynamic)

-----------------------------------------------------------------------------
(* Round trip.                                                             *)

\* every field of cls, inherited ones included, has a fixed size
RECURSIVE FixedSize(_, _)
FixedSize(cl, cls) ==
    \A i \in 1..Len(FieldsOf(cl, cls)) :
        LET d == FieldsOf(cl, cls)[i]
        IN /\ d.length.kind # "string"
           /\ isValid(d.type) \/ FixedSize(cl, d.type)

\* cls and the records it embeds are declared without a base class
RECURSIVE Plain(_, _)
Plain(cl, cls) ==
    /\ cl[cls].base = NoBase
    /\ \A i \in 1..Len(cl[cls].fields) :
          isValid(cl[cls].fields[i].type) \/ Plain(cl, cl[cls].fields[i].type)

\* the instance deserialize filled has every field of r deep-equal to r's
SameFields == \A n \in FieldNames(classes, inst.cls) : Get(out, n) = inst.f[n]

\* C1: for a record type whose fields all have a fixed size,
\* deserialize(new R(), serialize(r)) leaves the fresh instance with every
\* field deep-equal to the field of r
C1_RoundTrip ==
    (ret.op = "deserialize" /\ FixedSize(classes, inst.cls))
        => (ret.error = "" /\ SameFields)

-----------------------------------------------------------------------------
(* Counted-by arrays: lengths, sizes and offsets read from an instance.    *)

\* the counted-by members of the record type of the instance under test
Counted == { i \in 1..Len(metadata[inst.cls].members) :
                 metadata[inst.cls].members[i].length.kind = "string" }

\* the counter of member m is a field of the instance that holds a number
CounterOk(m) ==
    m.length.kind = "string" => Get(inst, m.length.key).k = "number"

\* the number of elements member m has now: 1 for a scalar, N for an array of
\* N, the value of the counter field for a counted-by array
CurrentLength(m) ==
    CASE m.length.kind = "undefined" -> 1
      [] m.length.kind = "number" -> m.length.n
      [] m.length.kind = "string" -> inst.f[m.length.key].n

\* the sum of the runtime byte sizes of the first j members
RECURSIVE RuntimeSize(_, _)
RuntimeSize(members, j) ==
    IF j = 0 THEN 0
    ELSE RuntimeSize(members, j - 1)
         + sizeof(metadata, members[j].type) * CurrentLength(members[j])

\* C7: after the counter is assigned k, the next query of the length of the
\* array it counts answers k, and so does sizeof(instance), which is
\* staticSize + sizeof(T) * k for a single counted-by array of T
C7_CountedByAliasing ==
    (inst.k = "object" /\ Simple(inst.cls)) =>
        \A i \in Counted :
            LET m == metadata[inst.cls].members[i]
            IN CounterOk(m) =>
                 /\ (ret.op = "length" /\ ret.arg = m.name)
                       => (ret.error = "" /\ ret.val = inst.f[m.length.key].n)
                 /\ (ret.op = "sizeof" /\ Counted = {i})
                       => /\ ret.error = ""
                          /\ ret.val = metadata[inst.cls].staticSize
                                 + sizeof(metadata, m.type) * inst.f[m.length.key].n

\* C8: offsetof of a record type, or of an instance of a static record, is
\* the staticOffset of the declaration; of an instance of a dynamic record
\* (one whose metadata is flagged isDynamic) it is the sum of the current
\* byte sizes sizeof(type) * length of the members before m, whatever was
\* assigned to the counters before the call
C8_Offsetof ==
    ret.op \in {"offsetof", "offsetofType"} =>
        LET s == metadata[inst.cls]
            has == MapHas(s.members, ret.arg)
            j == MemberIndex(s.members, ret.arg)
        IN IF ret.op = "offsetofType" \/ ~s.isDynamic
           THEN IF has
                THEN ret.error = "" /\ ret.val = s.members[j].staticOffset
                ELSE ret.error = "Error"
           ELSE (has /\ \A i \in 1..(j - 1) : CounterOk(s.members[i]))
                    => (ret.error = "" /\ ret.val = RuntimeSize(s.members, j - 1))

\* offsetof(instance, m) was asked of a dynamic instance after its counter
\* was given a value, and the answer is beyond m's declaration-time offset
C8_Witness ==
    /\ ret.op = "offsetof"
    /\ ret.error = ""
    /\ metadata[inst.cls].isDynamic
    /\ MapHas(metadata[inst.cls].members, ret.arg)
    /\ ret.val > MapGet(metadata[inst.cls].members, ret.arg).staticOffset

\* C9: sizeof of an instance of a dynamic record whose last member is an
\* array of primitive T counted by a field holding n is
\* staticSize + sizeof(T) * n
C9_SizeofDynamic ==
    (ret.op = "sizeof" /\ Simple(inst.cls) /\ metadata[inst.cls].members # <<>>) =>
        LET s == metadata[inst.cls]
            m == s.members[Len(s.members)]
        IN (m.length.kind = "string" /\ isValid(m.type) /\ Counted = {Len(s.members)}
              /\ CounterOk(m))
             => /\ ret.error = ""
                /\ ret.val = s.staticSize + sizeof(metadata, m.type) * inst.f[m.length.key].n

-----------------------------------------------------------------------------
(* What the declaration machinery accepts.                                 *)

\* member m of a declared record has a size known only at run time
DynamicallySized(m) ==
    \/ m.length.kind = "string"
    \/ ~isValid(m.type) /\ metadata[m.type].isDynamic

\* C11: in every accepted record type a dynamically sized member (a
\* counted-by array or an embedded dynamic record) is the last member
C11_DynamicMemberLast ==
    \A cls \in Declared :
        Simple(cls) =>
            \A i \in 1..(Len(metadata[cls].members) - 1) :
                ~DynamicallySized(metadata[cls].members[i])

\* C15: the member list of every declared type holds only members declared
\* by that type or by its ancestors, never those of a sibling type
C15_MetadataImmutability ==
    \A cls \in Declared :
        \A i \in 1..Len(metadata[cls].members) :
            metadata[cls].members[i].name \in FieldNames(classes, cls)

\* the field a counted-by array names is declared before it (in the record
\* or a base) as a scalar of a primitive integer type
CounterDeclared(fields, i) ==
    \E j \in 1..(i - 1) :
        /\ fields[j].name = fields[i].length.key
        /\ fields[j].length.kind = "undefined"
        /\ isValid(fields[j].type)

\* C16: a record type with a counted-by array whose counter is not a
\* primitive integer member declared earlier is not accepted: declaring it
\* raises an error
C16_InvalidCountField ==
    \A cls \in Declared :
        LET fields == FieldsOf(classes, cls)
        IN \A i \in 1..Len(fields) :
               fields[i].length.kind = "string" => CounterDeclared(fields, i)

\* C17: a record type that declares a member name twice, or declares again
\* the name of an inherited member, is not accepted: declaring it raises an
\* error
C17_DuplicateMemberName ==
    \A cls \in Declared : Distinct(FieldsOf(classes, cls))

-----------------------------------------------------------------------------
(* Byte order.                                                             *)

\* the byte of weight 256^p of n
ByteOf(n, p) == (n \div Pow256(p)) % 256

\* in `bytes`, the image of `instance`, every scalar member of a primitive
\* type holds its value with the least significant byte first when the
\* record's bigEndian option is false and last when it is true, and every
\* embedded record holds its own scalars in its own order
RECURSIVE InByteOrder(_, _)
InByteOrder(instance, bytes) ==
    LET s == metadata[instance.cls]
    IN \A i \in 1..Len(s.members) :
           LET m == s.members[i]
               size == sizeof(metadata, m.type)
               value == Get(instance, m.name)
           IN m.length.kind = "undefined" =>
                CASE value.k = "number" ->
                        /\ value.n \div Pow256(size - 1) < 256

                        /\ \A p \in 0..(size - 1) :
                               bytes[m.staticOffset + 1
                                     + (IF s.options.bigEndian THEN size - 1 - p ELSE p)]
                                   = ByteOf(value.n, p)
                  [] value.k = "object" ->
                        InByteOrder(value, GetBytes(bytes, m.staticOffset, size))
                  [] OTHER -> TRUE

\* C12: serialize writes every scalar member in the byte order of its own
\* record's bigEndian option (little-endian when false), embedded records in
\* theirs, and deserialize reads the values back in the same order
C12_Endianness ==
    (Serialized /\ ret.error = "") =>
        /\ InByteOrder(inst, buf)
        /\ ret.op = "deserialize" => InByteOrder(out, buf)

\* member i of the record type holds, in the instance, a value whose first
\* and last bytes differ
Lopsided(instance, i) ==
    LET m == metadata[instance.cls].members[i]
        value == Get(instance, m.name)
    IN /\ m.length.kind = "undefined"
       /\ value.k = "number"
       /\ ByteOf(value.n, 0) # ByteOf(value.n, sizeof(metadata, m.type) - 1)

\* a big-endian record with a multi-byte scalar and an embedded little-endian
\* record with one was serialized and read back
C12_Witness ==
    /\ ret.op = "deserialize"
    /\ ret.error = ""
    /\ metadata[inst.cls].options.bigEndian
    /\ \E i \in 1..Len(metadata[inst.cls].members) : Lopsided(inst, i)
    /\ \E i \in 1..Len(metadata[inst.cls].members) :
           LET d == Get(inst, metadata[inst.cls].members[i].name)
           IN /\ d.k = "object"
              /\ ~metadata[d.cls].options.bigEndian
              /\ \E j \in 1..Len(metadata[d.cls].members) : Lopsided(d, j)
              /\ Get(out, metadata[inst.cls].members[i].name) = d

-----------------------------------------------------------------------------
(* Views over one buffer.                                                  *)

-----------------------------------------------------------------------------
(* Unions.                                                                 *)

\* cls is a union of {a: uint32, b: uint8[4]}, declared in either order
UnionAB(cls) ==
    /\ Simple(cls)
    /\ metadata[cls].options.isUnion
    /\ Len(classes[cls].fields) = 2
    /\ { classes[cls].fields[i] : i \in 1..2 } = UnionInits

\* the array [n & 255, n >> 8 & 255, n >> 16 & 255, n >> 24 & 255]
LittleEndianBytes(n) == [p \in 1..4 |-> ByteOf(n, p - 1)]

\* C14: a union of {a: uint32, b: uint8[4]} has staticSize 4 and both
\* members are the same 4 bytes: with a written and b never written, the
\* image of the union is the little-endian bytes of a, and b read back from
\* it is that byte decomposition
C14_UnionAliasing ==
    \A cls \in Declared :
        UnionAB(cls) =>
            /\ metadata[cls].staticSize = 4
            /\ (/\ inst.k = "object"
                /\ inst.cls = cls
                /\ inst.f["b"] = Arr([p \in 1..4 |-> Num(0)])
                /\ Serialized)
                   => /\ ret.error = ""
                      /\ buf = LittleEndianBytes(inst.f["a"].n)
                      /\ ret.op = "deserialize" =>
                             out.f["b"] = Arr([p \in 1..4 |->
                                              Num(LittleEndianBytes(inst.f["a"].n)[p])])

-----------------------------------------------------------------------------
(* Deserializing from short buffers and into empty fields.                 *)

\* C18: deserialize of a buffer shorter than the static size of the record
\* type ends in an out-of-bounds error; it never returns normally
C18_ShortBuffer ==
    (/\ ret.op = "deserializeFrom"
     /\ ret.arg.empty = {}
     /\ ret.arg.len < metadata[inst.cls].staticSize)
        => ret.error = "RangeError"

\* C19: when deserialize meets a record-typed member whose target field is
\* empty, it stores a fresh instance of the declared record type in the
\* field and populates it from the bytes of the member
C19_NestedAllocation ==
    (/\ ret.op = "deserializeFrom"
     /\ ret.error = ""
     /\ ret.arg.len = Len(buf)
     /\ Plain(classes, inst.cls)
     /\ Distinct(classes[inst.cls].fields))
        => \A n \in ret.arg.empty :
               /\ Get(out, n).k = "object"
               /\ Get(out, n).cls = FieldDecl(classes, inst.cls, n).type
               /\ (Get(inst, n).k = "object"
                     /\ Distinct(classes[Get(inst, n).cls].fields))
                      => Get(out, n) = Get(inst, n)

-----------------------------------------------------------------------------
(* 128-bit codecs.                                                         *)

\* the digits of the integer v, held as a BigInt or as a Number
DigitOf(v, i) ==
    IF v.k = "bigint" THEN Digit(v, i)
    ELSE IF i <= 4 THEN (v.n \div Pow256(i - 1)) % 256
    ELSE IF v.n < 0 THEN 255 ELSE 0

\* x and y are the same integer
SameBig(x, y) == \A i \in 1..17 : DigitOf(x, i) = DigitOf(y, i)

\* the 16 bytes at `offset` are the halves of v: the high half (digits
\* 9..16) at offset + 8 in little-endian order and at offset + 0 in
\* big-endian order, the low half in the other 8 bytes, in the same order
HalvesAt(bytes, offset, le, v) ==
    \A p \in 0..7 :
        /\ bytes[offset + (IF le THEN 8 ELSE 0) + (IF le THEN p ELSE 7 - p) + 1]
               = DigitOf(v, 9 + p)
        /\ bytes[offset + (IF le THEN 0 ELSE 8) + (IF le THEN p ELSE 7 - p) + 1]
               = DigitOf(v, 1 + p)

\* C20: for int128 and uint128, every in-range v, every offset and both byte
\* orders, the bytes written are the two 64-bit halves of v, the high half
\* at offset + 8 in little-endian and at offset + 0 in big-endian; the
\* registry codec and the serialize/deserialize path write the same bytes;
\* and reading at the same offset returns v
C20_Int128 ==
    (inst.k \in {"bigint", "number"} /\ ret.op \in {"set", "get"}) =>
        /\ ret.error = ""
        /\ HalvesAt(buf, ret.arg.offset, ret.arg.le, inst)
        /\ buf = typeSet(ret.arg.type, Zeros(Len(buf)), ret.arg.offset, ret.arg.le, inst)
        /\ Bytes("", buf) = serializeWide(ret.arg.type, Zeros(Len(buf)), ret.arg.offset,
                                          ~ret.arg.le, inst)
        /\ ret.op = "get" => SameBig(out, inst)

-----------------------------------------------------------------------------
(* 128-bit floats.                                                         *)

\* the 8 bytes at `at` are the double of v in the byte order asked
DoubleAt(bytes, at, le, v) ==
    \A p \in 1..8 :
        bytes[at + p] = Float64Digits(Number(v).n)[IF le THEN p ELSE 9 - p]

ZerosAt(bytes, at) == \A p \in 1..8 : bytes[at + p] = 0

\* the buffer with one byte of the half at `at` overwritten
Scribbled(bytes, at, p, d) == [bytes EXCEPT ![at + p] = d]

\* where the low and the high 64 bits of a 16-byte slot are: the high half
\* at offset + 8 in little-endian order and at offset + 0 in big-endian order
LowHalf(call) == call.offset + (IF call.le THEN 0 ELSE 8)
HighHalf(call) == call.offset + (IF call.le THEN 8 ELSE 0)

\* both readers return the same on `bytes` whatever stands in the half at `at`
Ignores(bytes, call, at) ==
    \A p \in 1..8, d \in DigitSamples :
        /\ float128Get(Scribbled(bytes, at, p, d), call.offset, call.le)
               = float128Get(bytes, call.offset, call.le)
        /\ deserializeFloat128(Scribbled(bytes, at, p, d), call.offset, ~call.le)
               = deserializeFloat128(bytes, call.offset, ~call.le)

\* C21 as stated: in both byte orders, writing a float128 stores the 64-bit
\* float and zero-fills the low 64 bits of the 16-byte slot, reading ignores
\* the low 64 bits, and write followed by read returns the written float
C21_Float128LowZeroed ==
    (ret.op \in {"set", "get"} /\ ret.error = "") =>
        /\ DoubleAt(buf, HighHalf(ret.arg), ret.arg.le, inst)
        /\ ZerosAt(buf, LowHalf(ret.arg))
        /\ Ignores(buf, ret.arg, LowHalf(ret.arg))
        /\ ret.op = "get" => out = Number(inst)

\* C21, amended: in both byte orders, writing a float128 stores the 64-bit
\* float in the low 64 bits of the 16-byte slot (at offset + 0 in
\* little-endian order, at offset + 8 in big-endian order) and zero-fills the
\* high 64 bits, reading ignores the high 64 bits, and write followed by read
\* returns the written float
C21_Float128 ==
    (ret.op \in {"set", "get"} /\ ret.error = "") =>
        /\ DoubleAt(buf, LowHalf(ret.arg), ret.arg.le, inst)
        /\ ZerosAt(buf, HighHalf(ret.arg))
        /\ Ignores(buf, ret.arg, HighHalf(ret.arg))
        /\ ret.op = "get" => out = Number(inst)

\* a negative double written big-endian over a buffer of ones by serialize,
\* and read back
C21_Witness ==
    /\ ret.op = "get"
    /\ ret.arg.path = "struct"
    /\ ~ret.arg.le
    /\ ret.arg.offset > 0
    /\ buf[1] = 255
    /\ inst.k = "number"
    /\ inst.n < -1
    /\ out = inst

-----------------------------------------------------------------------------
(* align.                                                                  *)

\* m is the least multiple of a that is >= x
LeastMultiple(m, x, a) ==
    /\ m % a = 0
    /\ m >= x
    /\ \A n \in x..m : n % a = 0 => n = m

\* C22: for all non-negative integers x and positive integers a, align(x, a)
\* is the least multiple of a that is >= x; hence align(x, 1) = x,
\* align(x, a) >= x and align(align(x, a), a) = align(x, a)
C22_Align ==
    /\ ret.op = "align" =>
           /\ LeastMultiple(ret.val, ret.arg.value, ret.arg.alignment)
           /\ ret.val >= ret.arg.value
           /\ ret.arg.alignment = 1 => ret.val = ret.arg.value
    /\ ret.op = "realign" =>
           /\ ret.val = ret.arg.value
           /\ LeastMultiple(ret.val, inst.n, ret.arg.alignment)

\* a value that is no multiple of the alignment, aligned twice
C22_Witness ==
    /\ ret.op = "realign"
    /\ inst.n % ret.arg.alignment # 0
    /\ ret.val > inst.n

-----------------------------------------------------------------------------
(* The ranged cache.                                                       *)

\* p lies in one of the ranges
Within(ranges, p) ==
    \E i \in 1..Len(ranges) : ranges[i].start <= p /\ p < ranges[i].end

\* a sorted list of non-empty pairwise-disjoint sub-ranges of [start, end)
SubRanges(ranges, start, end) ==
    /\ \A i \in 1..Len(ranges) :
           /\ start <= ranges[i].start
           /\ ranges[i].start < ranges[i].end
           /\ ranges[i].end <= end
    /\ \A i \in 1..(Len(ranges) - 1) : ranges[i].end <= ranges[i + 1].start

\* p lies in a range stored in some region
Stored(resource, p) ==
    \E i \in 1..Len(resource.regions) : Within(resource.regions[i].ranges, p)

\* C23: in every state reachable by add(), collect() and size assignments,
\* for every start < end, missing(start, end) and cached(start, end) are
\* sorted lists of non-empty pairwise-disjoint sub-ranges of [start, end), no
\* offset lies in both, together they cover exactly [start, end), and an
\* offset is in cached iff it lies in some stored range
C23_MissingInverseOfCached ==
    ret.op = "query" =>
        /\ SubRanges(out.missing, ret.arg.start, ret.arg.end)
        /\ SubRanges(out.cached, ret.arg.start, ret.arg.end)
        /\ \A p \in ret.arg.start..(ret.arg.end - 1) :
               /\ Within(out.missing, p) # Within(out.cached, p)
               /\ Within(out.cached, p) <=> Stored(inst, p)

\* where the data of a region ends
RegionEnd(region) == region.offset + Len(region.data)

\* C24: after any sequence of add() and collect() calls on a sparse Resource,
\* regions is sorted by strictly increasing offset and no two regions
\* overlap: each region ends at or before the offset of the next
C24_RegionsSorted ==
    (inst.k = "resource" /\ inst.sparse) =>
        \A i \in 1..(Len(inst.regions) - 1) :
            /\ inst.regions[i].offset < inst.regions[i + 1].offset
            /\ RegionEnd(inst.regions[i]) <= inst.regions[i + 1].offset

\* add() has put a region with data before a region that was there
C24_Witness ==
    /\ inst.k = "resource"
    /\ inst.sparse
    /\ ret.op = "add"
    /\ ret.arg.data # <<>>
    /\ Len(inst.regions) >= 2
    /\ inst.regions[1].offset = ret.arg.offset
    /\ inst.regions[1].data = ret.arg.data

\* the byte the cache holds for offset p: the byte at p - region.offset in
\* the data of regionAt(p), -1 when there is no such region
ByteAt(resource, p) ==
    LET at == regionAt(resource, p)
    IN IF at = 0 THEN -1
       ELSE resource.regions[at].data[p - resource.regions[at].offset + 1]

\* C27: immediately after add(data, offset) returns, the region returned by
\* regionAt(offset) holds exactly the bytes of data at region-relative
\* positions [offset - region.offset, offset - region.offset + data.length),
\* bytes cached earlier outside [offset, offset + data.length) keep their
\* values (each is still the byte last added for its offset), and
\* missing(offset, offset + data.length) is empty
C27_ReadYourWrites ==
    (ret.op = "add" /\ ret.arg.data # <<>>) =>
        LET offset == ret.arg.offset
            end == ret.arg.offset + Len(ret.arg.data)
            at == regionAt(inst, offset)
        IN /\ at # 0
           /\ \A p \in 1..Len(ret.arg.data) :
                  /\ offset - inst.regions[at].offset + p <= Len(inst.regions[at].data)
                  /\ inst.regions[at].data[offset - inst.regions[at].offset + p]
                         = ret.arg.data[p]
           /\ \A q \in 0..(MaxEnd - 1) :
                  (Stored(inst, q) /\ (q < offset \/ q >= end))
                      => ByteAt(inst, q) = inst.written[q + 1]
           /\ missing(inst, offset, end) = <<>>

\* C28: after collect() on a sparse Resource in any reachable state, every
\* pair of consecutive regions is separated by a gap greater than
\* regionGapThreshold, and inside every region the ranges are sorted by
\* start, pairwise disjoint and non-adjacent: for consecutive ranges,
\* previous.end < next.start
C28_CollectNormalForm ==
    (inst.k = "resource" /\ inst.sparse /\ ret.op = "collect") =>
        /\ \A i \in 1..(Len(inst.regions) - 1) :
               inst.regions[i + 1].offset - RegionEnd(inst.regions[i])
                   > inst.regionGapThreshold
        /\ \A i \in 1..Len(inst.regions) :
               \A k \in 1..(Len(inst.regions[i].ranges) - 1) :
                   inst.regions[i].ranges[k].end < inst.regions[i].ranges[k + 1].start

\* C29: for a sparse cache in any reachable state and any start < end, after
\* every range returned by missing(start, end) has been added with add() and
\* collect() has run, regionAt(start) is a single region that contains the
\* whole of [start, end), and its data from start - region.offset to
\* end - region.offset equals the resource bytes that were added for those
\* offsets
C29_SingleBuffer ==
    (inst.k = "resource" /\ inst.sparse /\ ret.op = "get") =>
        /\ ret.error = ""
        /\ inst.regions[out.region].offset <= ret.arg.start
        /\ ret.arg.end <= RegionEnd(inst.regions[out.region])
        /\ out.data = SubSeq(inst.written, ret.arg.start + 1, ret.arg.end)

-----------------------------------------------------------------------------
(* serialize and its buffer.                                               *)

-----------------------------------------------------------------------------
(* Static and runtime offsets.                                             *)

\* no member before the j-th is an array counted by a field
NoCountedBefore(members, j) ==
    \A i \in 1..(j - 1) : members[i].length.kind # "string"

\* C26: for every dynamic record type T, every instance i of T and every
\* member m that is not preceded by a counted-by array,
\* offsetof(i, m) = offsetof(T, m): the offset computed on the instance is
\* the static offset of the declaration
C26_StaticRuntimeOffsets ==
    (ret.op = "offsetof" /\ metadata[inst.cls].isDynamic
       /\ MapHas(metadata[inst.cls].members, ret.arg)
       /\ NoCountedBefore(metadata[inst.cls].members,
                          MemberIndex(metadata[inst.cls].members, ret.arg)))
        => /\ ret.error = ""
           /\ offsetof(metadata, Class(inst.cls), ret.arg).error = ""
           /\ ret.val = offsetof(metadata, Class(inst.cls), ret.arg).v

-----------------------------------------------------------------------------
(* C30: after any sequence of key events (typing, backspace, ArrowUp and   *)
(* ArrowDown) followed by Enter, onLine has been called exactly once, with *)
(* the line the terminal showed as the input when Enter was pressed, also  *)
(* when that line was recalled from the history; once the handler is done  *)
(* the input is empty and the index is -1; and in every state              *)
(* -1 <= index <= inputs.length - 1.                                       *)

\* the handler of Enter has run, as far as its call of onLine
Entered == inst.k = "shell" /\ ret.op = "data" /\ ret.arg = "Enter"

\* the handler of Enter has run to its end
Submitted ==
    \/ Entered /\ inst.pending = 0
    \/ inst.k = "shell" /\ ret.op = "resume"

IndexInRange ==
    inst.k = "shell" =>
        /\ -1 <= inst.index
        /\ inst.index <= Len(inst.inputs) - 1

C30_LineSubmission ==
    /\ IndexInRange
    /\ Entered => out.calls = <<out.shown>>
    /\ Submitted => inst.input = <<>> /\ inst.index = -1

=============================================================================
